---- MODULE Spec2Model ----
(***************************************************************************)
(* A model of the NeXus semantic access layer of scippneutron:             *)
(*   - event-to-pixel binning of NXdetector (file_loading/nxdetector.py),  *)
(*   - the depends_on chain walk and the composition of transformations    *)
(*     (file_loading/nxtransformations.py),                                *)
(*   - dimension-label resolution of NXdata (file_loading/nxdata.py).      *)
(* Each subsystem has its own specification; the variables of the other    *)
(* subsystems are left untouched by it.                                    *)
(***************************************************************************)
EXTENDS Integers, Sequences, FiniteSets, TLC

VARIABLES
    \* ---- NXdetector / NXevent_data_by_pixel ----
    event_id,          \* the event table read from NXevent_data: one id per event
    detector_number,   \* the detector_number (or pixel_id) field, or absent
    det_select,        \* the selection of the last read
    det_result,        \* what the last NXevent_data_by_pixel.__getitem__ gave
    det_query,         \* what the last read of the shape or dims property gave
    \* ---- NXtransformations ----
    tr_nodes,          \* the transformation datasets / NXlogs of the file
    comp_depends_on,   \* the depends_on of the component (sample, source, ...)
    transformations,   \* the list filled by _get_transformations
    tr_t,              \* the loop variable t of the walk: a node, or 0 (None)
    tr_walked,         \* the nodes resolved by the walk so far, in order
    tr_pc,             \* where get_full_transformation_matrix stands
    tr_warnings,       \* the number of warnings emitted
    total_transform,   \* what get_full_transformation_matrix returned
    \* ---- NXdata ----
    nx_axes,           \* the 'axes' attribute of the group, or absent
    nx_axes_default,   \* the axes default given to NXdata.__init__, or None
    nx_signal,         \* the signal dataset: its shape and its 'axes' attribute
    nx_dims,           \* what the last read of NXdata.dims gave
    nx_signal_attr,    \* the 'signal' attribute of the group, or absent
    nx_signal_default, \* the signal default given to NXdata.__init__, or None
    nx_legacy_signal,  \* whether the dataset carries the attribute signal=1
    nx_fields,         \* the other datasets of the group, in the order of keys()
    nx_skip,           \* self._skip
    nx_select,         \* the selection the caller reads with
    nx_reads,          \* the number of reads made
    nx_read,           \* what the last NXdata._getitem gave
    nx_prev,           \* what the read before the last gave
    \* ---- selections (_common.py) ----
    sel_dims,          \* the dims of the dataset or of the parent class
    sel_child_dims,    \* the dims of a child field
    sel_given,         \* the selection as the caller wrote it
    sel_select,        \* the caller's selection object as it is now
    sel_index,         \* what to_plain_index(dims, select) gave
    sel_child,         \* what to_child_select(dims, child_dims, select) gave
    \* ---- by_nx_class ----
    cls_groups,        \* the groups of the file: path and NX_class attribute
    cls_query,         \* the group by_nx_class is called on
    cls_out,           \* what by_nx_class returned
    \* ---- File ----
    file_pc,           \* where the caller of File stands
    file_open,         \* whether the h5py handle is open
    file_opened,       \* how often the handle was opened
    \* ---- NXdetector classification ----
    ev_entries,        \* the NXevent_data groups below the detector
    ev_data,           \* the child 'data': absent, a dataset, or NXevent_data
    ev_fields,         \* whether event_time_offset / detector_number are children
    ev_query,          \* the last property or method called
    ev_result,         \* what it gave
    \* ---- logs ----
    log_data,          \* the names of the entries of data (or data.attrs)
    log_call,          \* the arguments of the last _add_log_to_data
    log_result,        \* what the last _add_log_to_data did
    log_warnings,      \* the number of warnings emitted
    log_groups,        \* the log groups given to load_logs
    log_pos,           \* the position of load_logs in the list
    log_pc,            \* where load_logs stands
    \* ---- integer datasets ----
    int_dtype,         \* the element type of the dataset in the file
    int_stored,        \* the stored element, as bytes, most significant first
    int_loaded,        \* what the last load gave
    \* ---- convert ----
    em_coords,         \* the inelastic coords of the data
    em_origin,         \* the origin of the conversion
    em_target,         \* the target of the conversion
    em_mode,           \* what _deduce_energy_mode gave
    \* ---- data stream ----
    st_args,           \* the arguments of _data_stream
    st_pc,             \* where the generator stands
    st_run_start,      \* whether run_start_info was assigned
    st_start_time,     \* where start_time was taken from
    st_worker,         \* the worker process data_collect_process
    st_consumers,      \* the consumers of the worker
    st_buffer,         \* the buffer of the worker
    st_instructions,   \* the content of worker_instruction_queue
    st_closed,         \* the queues that were closed
    st_exit,           \* how the loop of the generator ended
    st_stop_put,       \* whether STOP_NOW was put on the instruction queue
    st_terminated,     \* whether terminate() was called on the worker
    st_chunks          \* n_data_chunks

det_vars == <<event_id, detector_number, det_select, det_result, det_query>>

tr_vars == <<tr_nodes, comp_depends_on, transformations, tr_t, tr_walked,
             tr_pc, tr_warnings, total_transform>>

nx_vars == <<nx_axes, nx_axes_default, nx_signal, nx_dims, nx_signal_attr,
             nx_signal_default, nx_legacy_signal, nx_fields, nx_skip, nx_select,
             nx_reads, nx_read, nx_prev>>

sel_vars == <<sel_dims, sel_child_dims, sel_given, sel_select, sel_index, sel_child>>

cls_vars == <<cls_groups, cls_query, cls_out>>

file_vars == <<file_pc, file_open, file_opened>>

ev_vars == <<ev_entries, ev_data, ev_fields, ev_query, ev_result>>

log_vars == <<log_data, log_call, log_result, log_warnings, log_groups, log_pos,
              log_pc>>

int_vars == <<int_dtype, int_stored, int_loaded>>

em_vars == <<em_coords, em_origin, em_target, em_mode>>

st_vars == <<st_args, st_pc, st_run_start, st_start_time, st_worker, st_consumers,
             st_buffer, st_instructions, st_closed, st_exit, st_stop_put,
             st_terminated, st_chunks>>

vars == <<det_vars, tr_vars, nx_vars, sel_vars, cls_vars, file_vars, ev_vars,
          log_vars, int_vars, em_vars, st_vars>>

\* What an action of one part of the program leaves alone: all the other parts.
more_vars == <<sel_vars, cls_vars, file_vars, ev_vars, log_vars>>
rest_vars == <<int_vars, em_vars, st_vars>>

(***************************************************************************)
(* Generic helpers                                                         *)
(***************************************************************************)

\* All sequences over S of length at most n.
SeqsUpTo(S, n) == UNION {[1..k -> S] : k \in 0..n}

\* The sequences of SeqsUpTo(S, n) without a repeated element.
DistinctSeqsUpTo(S, n) ==
    {s \in SeqsUpTo(S, n) : \A i, j \in 1..Len(s) : i # j => s[i] # s[j]}

RECURSIVE SumSeq(_)
SumSeq(s) == IF s = <<>> THEN 0 ELSE Head(s) + SumSeq(Tail(s))

(***************************************************************************)
(* Affine transforms: 4x4 matrices with integer entries (lengths in whole   *)
(* metres, rotations by multiples of 90 degrees about a coordinate axis)   *)
(***************************************************************************)

Identity4 == <<<<1, 0, 0, 0>>, <<0, 1, 0, 0>>, <<0, 0, 1, 0>>, <<0, 0, 0, 1>>>>

MatMul(A, B) ==
    [i \in 1..4 |-> [j \in 1..4 |->
        A[i][1] * B[1][j] + A[i][2] * B[2][j] + A[i][3] * B[3][j] + A[i][4] * B[4][j]]]

\* sc.spatial.translation(s): the translation by the vector v.
TranslationMat(v) ==
    <<<<1, 0, 0, v[1]>>, <<0, 1, 0, v[2]>>, <<0, 0, 1, v[3]>>, <<0, 0, 0, 1>>>>

Sin90(deg) == CASE deg % 360 = 0 -> 0 [] deg % 360 = 90 -> 1
                [] deg % 360 = 180 -> 0 [] deg % 360 = 270 -> -1
Cos90(deg) == CASE deg % 360 = 0 -> 1 [] deg % 360 = 90 -> 0
                [] deg % 360 = 180 -> -1 [] deg % 360 = 270 -> 0

\* sc.spatial.rotations_from_rotvecs(angle * axis) for a unit axis: Rodrigues'
\* formula R = I + sin(angle) K + (1 - cos(angle)) K^2, K the cross-product
\* matrix of the axis.
RotationMat(axis, deg) ==
    LET K  == <<<<0, -axis[3], axis[2]>>, <<axis[3], 0, -axis[1]>>,
                <<-axis[2], axis[1], 0>>>>
        K2 == [i \in 1..3 |-> [j \in 1..3 |->
                  K[i][1] * K[1][j] + K[i][2] * K[2][j] + K[i][3] * K[3][j]]]
        R(i, j) == (IF i = j THEN 1 ELSE 0) + Sin90(deg) * K[i][j]
                       + (1 - Cos90(deg)) * K2[i][j]
    IN  <<<<R(1, 1), R(1, 2), R(1, 3), 0>>, <<R(2, 1), R(2, 2), R(2, 3), 0>>,
          <<R(3, 1), R(3, 2), R(3, 3), 0>>, <<0, 0, 0, 1>>>>

\* One element of a transform: a matrix, or the NaN that interpolation of kind
\* "previous" gives before the first sample.
Elem(a) == [ok |-> TRUE, a |-> a]
NaNElem == [ok |-> FALSE, a |-> Identity4]
ElemMul(x, y) == IF x.ok /\ y.ok THEN Elem(MatMul(x.a, y.a)) ELSE NaNElem

\* A transform: a Variable holding one matrix (timed = FALSE), or a DataArray
\* of matrices with a "time" coordinate (timed = TRUE).
StaticTransform(a) == [timed |-> FALSE, time |-> <<>>, m |-> <<Elem(a)>>]
TimedTransform(time, m) == [timed |-> TRUE, time |-> time, m |-> m]
NoTransform == [timed |-> FALSE, time |-> <<>>, m |-> <<>>]

\* x * y of scipp: a Variable is broadcast over the time of a DataArray.
TransformMul(x, y) ==
    CASE ~x.timed /\ ~y.timed -> [timed |-> FALSE, time |-> <<>>,
                                  m |-> <<ElemMul(x.m[1], y.m[1])>>]
      [] x.timed /\ ~y.timed  -> TimedTransform(x.time,
                                  [i \in 1..Len(x.time) |-> ElemMul(x.m[i], y.m[1])])
      [] ~x.timed /\ y.timed  -> TimedTransform(y.time,
                                  [i \in 1..Len(y.time) |-> ElemMul(x.m[1], y.m[i])])
      [] x.timed /\ y.timed   -> TimedTransform(x.time,
                                  [i \in 1..Len(x.time) |-> ElemMul(x.m[i], y.m[i])])

SetMax(S) == CHOOSE x \in S : \A y \in S : y <= x
SetMin(S) == CHOOSE x \in S : \A y \in S : x <= y

\* The elements of a set of integers in ascending order (np.unique).
RECURSIVE SortedSeq(_)
SortedSeq(S) == IF S = {} THEN <<>> ELSE <<SetMin(S)>> \o SortedSeq(S \ {SetMin(S)})

Range(s) == {s[i] : i \in 1..Len(s)}

(***************************************************************************)
(* NXtransformations: bounds and inputs                                    *)
(***************************************************************************)

MaxChain    == 3    \* longest depends_on chain of the static files
MaxLogChain == 2    \* longest depends_on chain of the time-logged files
MaxTime     == 3    \* log timestamps are drawn from 1..MaxTime
MaxWalk     == 5    \* the walk is cut after this many links (cyclic files)

\* The depends_on attribute: absent, '.', or the path of a node.
DependsAbsent  == [kind |-> "absent", target |-> 0]
DependsDot     == [kind |-> "dot", target |-> 0]
DependsPath(i) == [kind |-> "path", target |-> i]

NoOffset == [present |-> FALSE, value |-> <<0, 0, 0>>, units |-> "none"]
Offset(v, u) == [present |-> TRUE, value |-> v, units |-> u]

\* A dataset with one value (nature "static"), an NXlog of (time, value)
\* samples (nature "log"), or a streamed NXlog without value dataset
\* (nature "stream").
Node(type, nature, vector, time, value, units, offset) ==
    [transformation_type |-> type, nature |-> nature, vector |-> vector,
     time |-> time, value |-> value, units |-> units, offset |-> offset,
     depends_on |-> DependsDot]

StaticNode(type, vector, value, units, offset) ==
    Node(type, "static", vector, <<>>, <<value>>, units, offset)

StreamNode == Node("translation", "stream", <<0, 0, 1>>, <<>>, <<>>, "m", NoOffset)

\* An NXlog of distances along the axis: the sample taken at time t is t metres.
LogNode(vector, times) ==
    Node("translation", "log", vector, SortedSeq(times),
         SortedSeq(times), "m", NoOffset)

\* The nodes the static files are built from.
GoodStaticNodes ==
    { StaticNode("translation", <<0, 0, -1>>, 2, "m", NoOffset),
      StaticNode("translation", <<1, 0, 0>>, 1, "km", NoOffset),
      StaticNode("rotation", <<0, 1, 0>>, 90, "deg", NoOffset),
      StaticNode("rotation", <<0, 0, 1>>, 90, "deg", Offset(<<0, 3, 0>>, "m")) }
BadStaticNodes ==
    { StaticNode("translation", <<0, 0, -1>>, 2, "none", NoOffset),
      StaticNode("rotation", <<0, 1, 0>>, 90, "none", NoOffset),
      StaticNode("translation", <<0, 0, -1>>, 2, "m", Offset(<<0, 3, 0>>, "none")) }
StaticChoices == GoodStaticNodes \cup BadStaticNodes \cup {StreamNode}

Axis(i) == CASE i % 3 = 1 -> <<1, 0, 0>> [] i % 3 = 2 -> <<0, 1, 0>>
             [] OTHER -> <<0, 0, 1>>

\* How the last link of a chain ends: no depends_on, '.', or a path back to
\* the first link.
Ends == {DependsAbsent, DependsDot, DependsPath(1)}

\* The chain-shaped files: link i depends on link i+1, the last one ends the
\* chain, the component depends on link 1.
ChainFile(bodies, end) ==
    [i \in 1..Len(bodies) |->
        [bodies[i] EXCEPT !.depends_on =
            IF i < Len(bodies) THEN DependsPath(i + 1) ELSE end]]

(***************************************************************************)
(* NXtransformations: the operations                                       *)
(***************************************************************************)

\* v.to(unit='m'): defined for the units of length only.
IsLengthUnit(u) == u \in {"m", "km"}
ToMetres(x, u) == IF u = "km" THEN 1000 * x ELSE x

\* rotations_from_rotvecs accepts angles only.
IsAngleUnit(u) == u = "deg"

Scale(vector, x) == <<vector[1] * x, vector[2] * x, vector[3] * x>>

\* Whether the unit of the value allows the conversion of lines 60-64.
\* Faulty variant of ValueUnitOk: a value without unit is taken as metres or degrees.
ValueUnitOkDefaulting(node) ==
    CASE node.transformation_type = "translation" ->
             IsLengthUnit(node.units) \/ node.units = "none"
      [] node.transformation_type = "rotation" ->
             IsAngleUnit(node.units) \/ node.units = "none"
      [] OTHER -> FALSE
ValueUnitOk(node) ==
    CASE node.transformation_type = "translation" -> IsLengthUnit(node.units)
      [] node.transformation_type = "rotation" -> IsAngleUnit(node.units)
      [] OTHER -> FALSE

\* Transformation.offset: None without offset attribute, an error without
\* offset_units.
\* Faulty variant of OffsetOk: an offset without offset_units is taken as metres.
OffsetOkDefaulting(node) == TRUE
OffsetOk(node) == ~node.offset.present \/ node.offset.units # "none"

\* The matrix of one sample of the node: value * vector as a translation in
\* metres or as a rotation, times the offset translation if there is one.
SampleMat(node, x) ==
    LET v == IF node.transformation_type = "translation"
             THEN TranslationMat(Scale(node.vector, ToMetres(x, node.units)))
             ELSE RotationMat(node.vector, x)
    IN  IF node.offset.present
        THEN MatMul(v, TranslationMat(Scale(node.offset.value,
                                            ToMetres(1, node.offset.units))))
        ELSE v

TrFail == [ok |-> FALSE, t |-> NoTransform]
TrOk(t) == [ok |-> TRUE, t |-> t]

\* Transformation.__getitem__ with the empty selection.  A streamed NXlog has
\* no value dataset to read.
NodeGetitem(node) ==
    IF node.nature = "stream" \/ ~ValueUnitOk(node) \/ ~OffsetOk(node)
    THEN TrFail
    ELSE IF node.nature = "static"
         THEN TrOk(StaticTransform(SampleMat(node, node.value[1])))
         ELSE TrOk(TimedTransform(node.time,
                  [i \in 1..Len(node.value) |-> Elem(SampleMat(node, node.value[i]))]))

\* Transformation.depends_on: the next node, or 0 for None ('.' or no
\* attribute).
\* Faulty variant of DependsOn: '.' is resolved like a path.
DependsOnIgnoringDot(node) == IF node.depends_on.kind = "absent" THEN 0
                              ELSE IF node.depends_on.kind = "dot" THEN 1
                              ELSE node.depends_on.target
DependsOn(node) == IF node.depends_on.kind = "path" THEN node.depends_on.target ELSE 0

\* _transformation_is_nx_log_stream: a group without value dataset that
\* contains a stream.
IsNxLogStream(node) == node.nature = "stream"

\* interp1d(kind="previous", fill_value="extrapolate") evaluated at xnew: the
\* sample at the latest time <= x; NaN before the first sample.
\* Faulty variant of InterpolateTransform: kind="next" instead of "previous".
InterpolateNext(transform, xnew) ==
    TimedTransform(xnew,
        [j \in 1..Len(xnew) |->
            LET later == {i \in 1..Len(transform.time) : transform.time[i] >= xnew[j]}
            IN  IF later = {} THEN NaNElem ELSE transform.m[SetMin(later)]])
InterpolateTransform(transform, xnew) ==
    TimedTransform(xnew,
        [j \in 1..Len(xnew) |->
            LET before == {i \in 1..Len(transform.time) : transform.time[i] <= xnew[j]}
            IN  IF before = {} THEN NaNElem ELSE transform.m[SetMax(before)]])

\* One round of the loop of get_full_transformation_matrix.
\* Faulty variant of ComposeStep: the factors are multiplied in the opposite order.
ComposeStepReversed(total, transform) ==
    IF total.timed /\ transform.timed
    THEN LET xnew == SortedSeq(Range(total.time) \cup Range(transform.time))
         IN  TransformMul(InterpolateTransform(total, xnew),
                          InterpolateTransform(transform, xnew))
    ELSE TransformMul(total, transform)
ComposeStep(total, transform) ==
    IF total.timed /\ transform.timed
    THEN LET xnew == SortedSeq(Range(total.time) \cup Range(transform.time))
         IN  TransformMul(InterpolateTransform(transform, xnew),
                          InterpolateTransform(total, xnew))
    ELSE TransformMul(transform, total)

RECURSIVE ComposeFrom(_, _)
ComposeFrom(total, list) ==
    IF list = <<>> THEN total
    ELSE ComposeFrom(ComposeStep(total, Head(list)), Tail(list))

\* total_transform['time', latest_log_start:]: the samples from the latest of
\* the logs' first timestamps on.
\* Faulty variant of ClipToLatestStart: the result is not clipped.
ClipNothing(total, list) == total
ClipToLatestStart(total, list) ==
    IF ~total.timed THEN total
    ELSE LET starts == {list[i].time[1] : i \in {k \in 1..Len(list) : list[k].timed}}
             latest == SetMax(starts)
             keep   == SelectSeq([j \in 1..Len(total.time) |-> j],
                                 LAMBDA j : total.time[j] >= latest)
         IN  TimedTransform([j \in 1..Len(keep) |-> total.time[keep[j]]],
                            [j \in 1..Len(keep) |-> total.m[keep[j]]])

\* Lines 111-133 of get_full_transformation_matrix.
ComposeAll(list) ==
    ClipToLatestStart(ComposeFrom(StaticTransform(Identity4), list), list)

\* get_full_transformation_matrix up to the loop of _get_transformations: a
\* missing depends_on counts as '.', '.' collects nothing, a first link that is
\* a streamed NXlog is replaced by the identity with a warning.
TrBegin ==
    /\ tr_pc = "idle"
    /\ LET d == IF comp_depends_on.kind = "absent" THEN DependsDot
                ELSE comp_depends_on
       IN  IF d.kind = "dot"
           THEN /\ tr_pc' = "compose"
                /\ UNCHANGED <<transformations, tr_t, tr_warnings>>
           ELSE IF IsNxLogStream(tr_nodes[d.target])
                THEN /\ tr_warnings' = tr_warnings + 1
                     /\ transformations' =
                            Append(transformations, StaticTransform(Identity4))
                     /\ tr_pc' = "compose"
                     /\ UNCHANGED tr_t
                ELSE /\ tr_t' = d.target
                     /\ tr_pc' = "walk"
                     /\ UNCHANGED <<transformations, tr_warnings>>
    /\ UNCHANGED <<tr_nodes, comp_depends_on, tr_walked, total_transform>>
    /\ UNCHANGED <<det_vars, nx_vars, more_vars, rest_vars>>

\* One round of "while t is not None": append t[()], then t = t.depends_on.
\* An error raised by t[()] leaves get_full_transformation_matrix.
TrWalkStep ==
    /\ tr_pc = "walk"
    /\ tr_t # 0
    /\ Len(tr_walked) < MaxWalk
    /\ tr_walked' = Append(tr_walked, tr_t)
    /\ LET r == NodeGetitem(tr_nodes[tr_t])
       IN  IF r.ok
           THEN /\ transformations' = Append(transformations, r.t)
                /\ tr_t' = DependsOn(tr_nodes[tr_t])
                /\ UNCHANGED tr_pc
           ELSE /\ tr_pc' = "error"
                /\ UNCHANGED <<transformations, tr_t>>
    /\ UNCHANGED <<tr_nodes, comp_depends_on, tr_warnings, total_transform>>
    /\ UNCHANGED <<det_vars, nx_vars, more_vars, rest_vars>>

\* The loop ends when t is None.
TrWalkEnd ==
    /\ tr_pc = "walk"
    /\ tr_t = 0
    /\ tr_pc' = "compose"
    /\ UNCHANGED <<tr_nodes, comp_depends_on, transformations, tr_t, tr_walked,
                   tr_warnings, total_transform>>
    /\ UNCHANGED <<det_vars, nx_vars, more_vars, rest_vars>>

\* The composition of the collected transformations and the return.
TrCompose ==
    /\ tr_pc = "compose"
    /\ total_transform' = ComposeAll(transformations)
    /\ tr_pc' = "done"
    /\ UNCHANGED <<tr_nodes, comp_depends_on, transformations, tr_t, tr_walked,
                   tr_warnings>>
    /\ UNCHANGED <<det_vars, nx_vars, more_vars, rest_vars>>

(***************************************************************************)
(* NXdetector: bounds and inputs                                           *)
(***************************************************************************)

MaxEvents == 3      \* longest event table
MaxId     == 2      \* event ids and detector numbers are drawn from 0..MaxId
MaxPixels == 2      \* longest detector_number field

Ids == 0..MaxId

\* A field that may be missing from the group.
NoField == [present |-> FALSE, values |-> <<>>]
SomeField(v) == [present |-> TRUE, values |-> v]

\* The selections a caller may pass to __getitem__ of a one-dimensional view.
FullSelects == {[kind |-> k, start |-> 0, stop |-> 0] :
                    k \in {"Ellipsis", "empty_tuple", "slice_none"}}
SliceSelects(n) == {[kind |-> "slice", start |-> a, stop |-> b] :
                    a \in 0..n, b \in 0..n}
\* The slices keep at least one element.
Selects(n) == FullSelects \cup {s \in SliceSelects(n) : s.start < s.stop}

NoSelect == [kind |-> "none", start |-> 0, stop |-> 0]

(***************************************************************************)
(* NXdetector: the operations                                              *)
(***************************************************************************)

\* to_plain_index on a one-dimensional field, applied to its values: Ellipsis,
\* the empty tuple and slice(None) select everything, slice(a, b) selects
\* values[a:b].
\* A variant of FieldGetitem that keeps the length of the slice and takes the
\* values from the start of the field.
FieldGetitemFromStart(values, select) ==
    IF select.kind = "slice"
    THEN SubSeq(values, 1, select.stop - select.start)
    ELSE values
FieldGetitem(values, select) ==
    IF select.kind = "slice"
    THEN SubSeq(values, select.start + 1, select.stop)
    ELSE values

\* A variant of IsFullSelect that lets every slice pass.
IsFullSelectOrSlice(select) == select.kind # "none"
\* select not in (Ellipsis, tuple()) and select != slice(None), negated.
IsFullSelect(select) == select.kind \in {"Ellipsis", "empty_tuple", "slice_none"}

IdMin(ids) == CHOOSE m \in {ids[k] : k \in 1..Len(ids)} :
                  \A k \in 1..Len(ids) : m <= ids[k]
IdMax(ids) == CHOOSE m \in {ids[k] : k \in 1..Len(ids)} :
                  \A k \in 1..Len(ids) : m >= ids[k]

\* sc.arange(start, stop): start, start+1, ..., stop-1.
Arange(start, stop) == [i \in 1..(IF stop > start THEN stop - start ELSE 0) |->
                           start + i - 1]

\* The pixel range inferred from the events when there is no detector_number.
\* Faulty variant of InferredDetectorNumber: the stop of the range is id_max.
InferredRangeNoPlusOne(ids) == Arange(IdMin(ids), IdMax(ids))
InferredDetectorNumber(ids) == Arange(IdMin(ids), IdMax(ids) + 1)

\* sc.bin(table, groups=[event_id]): one bin per group value, in the order of
\* the groups; bin i holds the rows (here: their positions in the table, in
\* table order) whose event_id equals the i-th group value.  Rows whose
\* event_id is no group value are in no bin.
RowsOf(table, id) == SelectSeq([k \in 1..Len(table) |-> k],
                               LAMBDA k : table[k] = id)
\* Faulty variant of Bin: the bins without rows are left out.
BinDropEmpty(table, groups) ==
    LET all == [i \in 1..Len(groups) |-> RowsOf(table, groups[i])]
    IN  SelectSeq(all, LAMBDA b : b # <<>>)
Bin(table, groups) == [i \in 1..Len(groups) |-> RowsOf(table, groups[i])]

DetError == [kind |-> "error", detector_number |-> <<>>, buckets |-> <<>>]
DetNone  == [kind |-> "none", detector_number |-> <<>>, buckets |-> <<>>]
DetOk(dn, b) == [kind |-> "ok", detector_number |-> dn, buckets |-> b]

\* The grouping and folding that ends __getitem__: the pixels of the result
\* are the flattened detector numbers, folded back to their sizes.
BinByPixel(table, dn) == DetOk(dn, Bin(table, dn))

\* NXevent_data_by_pixel.__getitem__ for a non-empty event table, or with a
\* detector_number field.
Getitem(select) ==
    IF ~detector_number.present
    THEN IF ~IsFullSelect(select)
         THEN DetError
         ELSE BinByPixel(event_id, InferredDetectorNumber(event_id))
    ELSE BinByPixel(event_id, FieldGetitem(detector_number.values, select))

\* A read.  min() and max() of no event at all are not defined by the source:
\* the read of an empty table without detector_number either fails or gives
\* no pixel.
DetRead(select) ==
    /\ det_select' = select
    /\ IF ~detector_number.present /\ event_id = <<>> /\ IsFullSelect(select)
       THEN det_result' \in {DetError, DetOk(<<>>, <<>>)}
       ELSE det_result' = Getitem(select)
    /\ UNCHANGED <<event_id, detector_number, det_query>>
    /\ UNCHANGED <<tr_vars, nx_vars, more_vars, rest_vars>>

DetReadFull == \E select \in FullSelects : DetRead(select)

\* Without detector_number the shape is unknown and any slice is refused; one
\* stands for all of them.
DetReadSlice ==
    \E select \in Selects(IF detector_number.present
                          THEN Len(detector_number.values) ELSE 1) \ FullSelects :
        DetRead(select)

QueryNone == [op |-> "none", kind |-> "none", value |-> <<>>]
QueryRaise(op) == [op |-> op, kind |-> "NexusStructureError", value |-> <<>>]
QueryField(op, value) == [op |-> op, kind |-> "field", value |-> value]
QueryOk(op, value) == [op |-> op, kind |-> "ok", value |-> value]

\* NXevent_data_by_pixel.shape: the shape of the detector_number field, and
\* NexusStructureError without it.
DetShape ==
    /\ det_query' = IF ~detector_number.present THEN QueryRaise("shape")
                    ELSE QueryField("shape", <<Len(detector_number.values)>>)
    /\ UNCHANGED <<event_id, detector_number, det_select, det_result>>
    /\ UNCHANGED <<tr_vars, nx_vars, more_vars, rest_vars>>

\* NXevent_data_by_pixel.dims: ['detector_number'] without the field, else
\* the dims of the field, whatever they are.
DetDims ==
    /\ det_query' = IF ~detector_number.present
                    THEN QueryOk("dims", <<"detector_number">>)
                    ELSE QueryField("dims", <<>>)
    /\ UNCHANGED <<event_id, detector_number, det_select, det_result>>
    /\ UNCHANGED <<tr_vars, nx_vars, more_vars, rest_vars>>

(***************************************************************************)
(* NXdata: bounds and inputs.  A string is a sequence of characters.       *)
(***************************************************************************)

MaxRank    == 2     \* most axes of a signal, most entries of an axes list
MaxAxesLen == 3     \* longest 'axes' attribute string of a signal dataset

NoAttr == [present |-> FALSE, value |-> <<>>]
Attr(v) == [present |-> TRUE, value |-> v]

\* The entries of an axes list: names, or '.' for "no coordinate".
AxisNames == {<<"x">>, <<"y">>, <<".">>}

\* The characters of the legacy 'axes' attribute of a signal dataset.
AxesChars == {"x", ","}

Extents == {1, 2}

NoDataset == [present |-> FALSE, shape |-> <<>>, axes |-> NoAttr]
SignalDataset(shape, axes) == [present |-> TRUE, shape |-> shape, axes |-> axes]

(***************************************************************************)
(* NXdata: the operations                                                  *)
(***************************************************************************)

DigitChars == <<"0", "1", "2", "3", "4", "5", "6", "7", "8", "9">>

\* str(i) for i >= 0.
RECURSIVE Str(_)
Str(i) == IF i < 10 THEN <<DigitChars[i + 1]>>
          ELSE Str(i \div 10) \o <<DigitChars[(i % 10) + 1]>>

\* f'dim_{i}'
\* Faulty variant of DimLabel: the axes are counted from 1.
DimLabelOneBased(i) == <<"d", "i", "m", "_">> \o Str(i + 1)
DimLabel(i) == <<"d", "i", "m", "_">> \o Str(i)

\* s.split(sep): the pieces of s between the separators; one piece more than
\* there are separators, empty pieces included.
RECURSIVE Split(_, _)
Split(s, sep) ==
    IF \A k \in 1..Len(s) : s[k] # sep THEN <<s>>
    ELSE LET k == CHOOSE k \in 1..Len(s) :
                      s[k] = sep /\ \A l \in 1..(k - 1) : s[l] # sep
         IN  <<SubSeq(s, 1, k - 1)>> \o Split(SubSeq(s, k + 1, Len(s)), sep)

\* The name of the dataset that may be the signal.
DataName == <<"d", "a", "t", "a">>

\* NXdata._signal_name: the 'signal' attribute of the group, else the default
\* of the constructor, else the first dataset that carries signal=1, else None.
SignalName ==
    IF nx_signal_attr.present THEN nx_signal_attr
    ELSE IF nx_signal_default.present THEN nx_signal_default
    ELSE IF nx_signal.present /\ nx_legacy_signal THEN Attr(DataName)
    ELSE NoAttr

\* NXdata._signal: self[self._signal_name], absent when this raises.
Signal ==
    IF SignalName.present /\ SignalName.value = DataName THEN nx_signal
    ELSE NoDataset

\* self.attrs.get('axes', self._axes_default)
AxesOrDefault == IF nx_axes.present THEN nx_axes ELSE nx_axes_default

DimsError == [kind |-> "error", dims |-> <<>>]
DimsNone  == [kind |-> "none", dims |-> <<>>]
DimsOk(d) == [kind |-> "ok", dims |-> d]

\* NXdata.dims.  Without a signal dataset self._signal raises.
Dims ==
    IF AxesOrDefault.present
    THEN DimsOk([i \in 1..Len(AxesOrDefault.value) |->
                    IF AxesOrDefault.value[i] = <<".">>
                    THEN DimLabel(i - 1) ELSE AxesOrDefault.value[i]])
    ELSE IF ~Signal.present THEN DimsError
    ELSE IF Signal.axes.present THEN DimsOk(Split(Signal.axes.value, ","))
    ELSE DimsOk([i \in 1..Len(Signal.shape) |-> DimLabel(i - 1)])

NxReadDims ==
    /\ nx_dims' = Dims
    /\ UNCHANGED <<nx_axes, nx_axes_default, nx_signal, nx_signal_attr,
                   nx_signal_default, nx_legacy_signal, nx_fields, nx_skip,
                   nx_select, nx_reads, nx_read, nx_prev>>
    /\ UNCHANGED <<det_vars, tr_vars, more_vars, rest_vars>>

(***************************************************************************)
(* Selections (_common.py): bounds and inputs.  A dimension label is a     *)
(* string, that is a sequence of characters.                               *)
(***************************************************************************)

MaxSelRank  == 2    \* most dims of a dataset, most indices of a positional tuple
MaxSelItems == 2    \* most entries of a selection given as dict

\* The selector of one dimension: an integer, slice(start, stop) or slice(None).
SelInt(i) == [kind |-> "int", start |-> i, stop |-> 0]
SelSlice(a, b) == [kind |-> "slice", start |-> a, stop |-> b]
SliceNone == [kind |-> "slice_none", start |-> 0, stop |-> 0]
Selectors == {SelInt(0), SelSlice(0, 1), SliceNone}

\* One entry of a selection: the key is a dimension label, or empty for a
\* positional index.
Entry(key, sel) == [key |-> key, sel |-> sel]

\* ScippIndex: Ellipsis, a tuple of positional indices (the empty tuple
\* included), the tuple (label, selector), a bare int or slice, a dict, or a
\* value of another type.
SelectEllipsis == [kind |-> "Ellipsis", items |-> <<>>]
SelectTuple(sels) == [kind |-> "tuple",
                      items |-> [i \in 1..Len(sels) |-> Entry(<<>>, sels[i])]]
SelectNamed(key, sel) == [kind |-> "named", items |-> <<Entry(key, sel)>>]
SelectBare(sel) == [kind |-> "bare", items |-> <<Entry(<<>>, sel)>>]
SelectDict(items) == [kind |-> "dict", items |-> items]
SelectOther == [kind |-> "other", items |-> <<>>]

SelLabels == {<<"x">>, <<"y">>, <<"z">>}

ScippIndex ==
    {SelectEllipsis, SelectOther}
        \cup {SelectTuple(sels) : sels \in SeqsUpTo(Selectors, MaxSelRank)}
        \cup {SelectNamed(k, sel) : k \in SelLabels, sel \in Selectors}
        \cup {SelectBare(sel) : sel \in Selectors}
        \cup {SelectDict(items) :
                items \in {it \in SeqsUpTo({Entry(k, sel) : k \in SelLabels,
                                                           sel \in Selectors},
                                           MaxSelItems) :
                              \A i, j \in 1..Len(it) : i # j => it[i].key # it[j].key}}

(***************************************************************************)
(* Selections: the operations                                              *)
(***************************************************************************)

SelNone == [kind |-> "none", single |-> FALSE, index |-> <<>>]
ValueError == [kind |-> "ValueError", single |-> FALSE, index |-> <<>>]
PlainIndex(index) == [kind |-> "ok", single |-> Len(index) = 1, index |-> index]

\* check_1d of _to_canonical_select passes.
\* Faulty variant of Check1d: the number of dims is not checked.
Check1dAlways(dims) == Len(dims) >= 1
Check1d(dims) == Len(dims) = 1

\* _to_canonical_select: the selection as dict (a sequence of entries with
\* distinct keys), or ok = FALSE for a ValueError.
ToCanonicalSelect(dims, select) ==
    LET Ok(items) == [ok |-> TRUE, items |-> items]
        Err == [ok |-> FALSE, items |-> <<>>]
    IN  CASE select.kind = "Ellipsis" -> Ok(<<>>)
          [] select.kind = "tuple" /\ select.items = <<>> -> Ok(<<>>)
          [] select.kind = "named" -> Ok(select.items)
          [] select.kind = "tuple" /\ select.items # <<>> ->
                 IF ~Check1d(dims) \/ Len(select.items) # 1 THEN Err
                 ELSE Ok(<<Entry(dims[1], select.items[1].sel)>>)
          [] select.kind = "bare" ->
                 IF ~Check1d(dims) THEN Err
                 ELSE Ok(<<Entry(dims[1], select.items[1].sel)>>)
          [] select.kind = "dict" -> Ok(select.items)
          [] OTHER -> Err

\* [slice(None)] * len(dims)
\* Faulty variant of DefaultIndex: the dims without selector get the index 0.
DefaultIndexZero(dims) == [i \in 1..Len(dims) |-> SelInt(0)]
DefaultIndex(dims) == [i \in 1..Len(dims) |-> SliceNone]

\* dims.index(key): the first position of key in dims, 0 if there is none.
IndexOf(dims, key) ==
    IF \E i \in 1..Len(dims) : dims[i] = key
    THEN CHOOSE i \in 1..Len(dims) :
             dims[i] = key /\ \A j \in 1..(i - 1) : dims[j] # key
    ELSE 0

\* The loop of to_plain_index over the entries of the canonical selection.  A
\* key that is no dim raises, or is passed over when ignore_missing is set.
RECURSIVE SetIndex(_, _, _, _)
SetIndex(index, dims, items, ignore_missing) ==
    IF items = <<>> THEN PlainIndex(index)
    ELSE LET i == IndexOf(dims, Head(items).key)
         IN  IF i = 0
             THEN IF ignore_missing
                  THEN SetIndex(index, dims, Tail(items), ignore_missing)
                  ELSE ValueError
             ELSE SetIndex([index EXCEPT ![i] = Head(items).sel], dims,
                           Tail(items), ignore_missing)

ToPlainIndex(dims, select) ==
    LET c == ToCanonicalSelect(dims, select)
    IN  IF c.ok THEN SetIndex(DefaultIndex(dims), dims, c.items, FALSE)
        ELSE ValueError

\* to_plain_index(dims, select, ignore_missing=True), as nxdata.py calls it.
ToPlainIndexIgnoreMissing(dims, select) ==
    LET c == ToCanonicalSelect(dims, select)
    IN  IF c.ok THEN SetIndex(DefaultIndex(dims), dims, c.items, TRUE)
        ELSE ValueError

\* The shape of what the backend returns for dataset[index]: an integer
\* removes the axis, slice(a, b) keeps the positions a .. b-1 that exist.
RECURSIVE IndexedAxes(_, _)
IndexedAxes(axes, index) ==
    IF axes = <<>> THEN <<>>
    ELSE LET n == Head(axes).size
             i == Head(index)
             rest == IndexedAxes(Tail(axes), Tail(index))
             Cut(k) == IF k < n THEN k ELSE n
         IN  CASE i.kind = "int" -> rest
               [] i.kind = "slice" ->
                      <<[Head(axes) EXCEPT !.size =
                            IF Cut(i.stop) > Cut(i.start)
                            THEN Cut(i.stop) - Cut(i.start) ELSE 0]>> \o rest
               [] OTHER -> <<Head(axes)>> \o rest

ChildNone == [kind |-> "none", select |-> SelectOther]
ChildError == [kind |-> "ValueError", select |-> SelectOther]
ChildOk(select) == [kind |-> "ok", select |-> select]

\* to_child_select.
\* Faulty variant of ToChildSelect: no entry is removed.
ToChildSelectKeepAll(dims, child_dims, select) ==
    IF Range(dims) = Range(child_dims) THEN ChildOk(select)
    ELSE LET c == ToCanonicalSelect(dims, select)
         IN  IF ~c.ok THEN ChildError ELSE ChildOk(SelectDict(c.items))
ToChildSelect(dims, child_dims, select) ==
    IF Range(dims) = Range(child_dims) THEN ChildOk(select)
    ELSE LET c == ToCanonicalSelect(dims, select)
         IN  IF ~c.ok THEN ChildError
             ELSE ChildOk(SelectDict(SelectSeq(c.items,
                     LAMBDA e : ~(e.key \in Range(dims)
                                  /\ e.key \notin Range(child_dims)))))

\* A call of to_plain_index(dims, select): the argument and what was returned.
SelToPlainIndex ==
    /\ sel_index' = [select |-> sel_select,
                     out |-> ToPlainIndex(sel_dims, sel_select)]
    /\ UNCHANGED <<sel_dims, sel_child_dims, sel_given, sel_select, sel_child>>
    /\ UNCHANGED <<det_vars, tr_vars, nx_vars, cls_vars, file_vars, ev_vars,
                   log_vars, rest_vars>>

\* A call of to_child_select(dims, child_dims, select).  A dict is canonical
\* as it is: "del select[d]" then removes the entries from the caller's dict.
SelToChildSelect ==
    /\ sel_child' = [select |-> sel_select,
                     out |-> ToChildSelect(sel_dims, sel_child_dims, sel_select)]
    /\ sel_select' =
           IF sel_select.kind = "dict" /\ Range(sel_dims) # Range(sel_child_dims)
           THEN ToChildSelect(sel_dims, sel_child_dims, sel_select).select
           ELSE sel_select
    /\ UNCHANGED <<sel_dims, sel_child_dims, sel_given, sel_index>>
    /\ UNCHANGED <<det_vars, tr_vars, nx_vars, cls_vars, file_vars, ev_vars,
                   log_vars, rest_vars>>

(***************************************************************************)
(* NXdata._getitem: bounds and inputs                                      *)
(***************************************************************************)

MaxFields == 2      \* most datasets of the group besides the signal
MaxReads  == 2      \* reads of one NXdata view

\* NXdetector._nxevent_data_fields, the list NXdetector._nxdata passes as skip.
NxEventDataFields ==
    << <<"e","v","e","n","t","_","t","i","m","e","_","z","e","r","o">>,
       <<"e","v","e","n","t","_","i","n","d","e","x">>,
       <<"e","v","e","n","t","_","t","i","m","e","_","o","f","f","s","e","t">>,
       <<"e","v","e","n","t","_","i","d">> >>

\* A dataset of the group: its name, its shape and the '<name>_indices'
\* attribute of the group.
FieldOf(name, shape, indices) == [name |-> name, shape |-> shape, indices |-> indices]

FieldChoices ==
    { FieldOf(<<"x">>, <<2>>, NoAttr),
      FieldOf(<<"x">>, <<2, 2>>, NoAttr),
      FieldOf(<<"t">>, <<2>>, NoAttr),
      FieldOf(<<"t">>, <<1>>, NoAttr),
      FieldOf(<<"t">>, <<2>>, Attr(<<0>>)),
      FieldOf(<<"y">>, <<1>>, Attr(<<1>>)) }

ReadAxes == {NoAttr, Attr(<<<<"x">>>>), Attr(<<<<"x">>, <<"y">>>>),
             Attr(<<<<".">>, <<"y">>>>)}

ReadSignals == {SignalDataset(<<2>>, NoAttr), SignalDataset(<<2, 1>>, NoAttr),
                SignalDataset(<<2, 2>>, NoAttr), SignalDataset(<<2>>, Attr(<<"x">>))}

ReadSelects == {SelectEllipsis, SelectDict(<<Entry(<<"x">>, SelSlice(0, 1))>>),
                SelectNamed(<<"x">>, SelInt(0))}

(***************************************************************************)
(* NXdata._getitem: the operations                                         *)
(***************************************************************************)

\* NXdata._errors_name
ErrorsName ==
    IF nx_signal_default.present
    THEN nx_signal_default.value \o <<"_", "e", "r", "r", "o", "r", "s">>
    ELSE <<"e", "r", "r", "o", "r", "s">>

\* NXdata._get_axes: the named axes, '.' left out.
GetAxes ==
    IF AxesOrDefault.present
    THEN SelectSeq(AxesOrDefault.value, LAMBDA a : a # <<".">>)
    ELSE IF Signal.present /\ Signal.axes.present THEN Split(Signal.axes.value, ",")
    ELSE <<>>

\* load_dataset(group, name, dimensions=dims, index=index): the axes (label
\* and size) of the variable read, or ok = FALSE when the number of labels is
\* not the rank of the dataset.
LoadDataset(shape, dims, index) ==
    IF index.kind # "ok" \/ Len(dims) # Len(shape)
    THEN [ok |-> FALSE, axes |-> <<>>]
    ELSE [ok |-> TRUE,
          axes |-> IndexedAxes([i \in 1..Len(shape) |->
                                   [dim |-> dims[i], size |-> shape[i]]],
                               index.index)]

\* NXdata._guess_dims: the label of the only axis of da with the extent, for
\* every extent of the field; ok = FALSE for the KeyError.
GuessDims(axes, shape) ==
    LET With(s) == {i \in 1..Len(axes) : axes[i].size = s}
    IN  IF \A k \in 1..Len(shape) : Cardinality(With(shape[k])) = 1
        THEN [ok |-> TRUE,
              dims |-> [k \in 1..Len(shape) |->
                          axes[CHOOSE i \in With(shape[k]) : TRUE].dim]]
        ELSE [ok |-> FALSE, dims |-> <<>>]

\* Lines 122-131 of _getitem: the dims of one item.
FieldDims(axes, f) ==
    IF f.indices.present
    THEN IF \A k \in 1..Len(f.indices.value) : f.indices.value[k] < Len(axes)
         THEN [kind |-> "ok",
               dims |-> [k \in 1..Len(f.indices.value) |->
                           axes[f.indices.value[k] + 1].dim]]
         ELSE [kind |-> "error", dims |-> <<>>]
    ELSE IF f.name \in Range(GetAxes) THEN [kind |-> "ok", dims |-> <<f.name>>]
    ELSE IF GuessDims(axes, f.shape).ok
         THEN [kind |-> "ok", dims |-> GuessDims(axes, f.shape).dims]
         ELSE [kind |-> "NexusStructureError", dims |-> <<>>]

\* The loop of lines 118-136 over the items: the coordinates loaded, and how
\* the loop ended.
RECURSIVE LoadCoords(_, _, _, _)
LoadCoords(axes, items, select, coords) ==
    IF items = <<>> THEN [kind |-> "ok", coords |-> coords]
    ELSE LET f == Head(items)
             d == FieldDims(axes, f)
         IN  IF d.kind # "ok" THEN [kind |-> d.kind, coords |-> coords]
             ELSE IF ToPlainIndexIgnoreMissing(d.dims, select).kind # "ok"
             THEN [kind |-> "ValueError", coords |-> coords]
             ELSE IF ~LoadDataset(f.shape, d.dims,
                                  ToPlainIndexIgnoreMissing(d.dims, select)).ok
             THEN [kind |-> "error", coords |-> coords]
             ELSE LoadCoords(axes, Tail(items), select,
                             Append(coords, [name |-> f.name, dims |-> d.dims]))

\* Lines 112-113: skip with the names of the signal and of its errors added.
SkipAfter(skip) == skip \o <<SignalName.value, ErrorsName>>

\* self._skip when the read is over: "skip = self._skip" names the list
\* itself, so that "skip +=" has extended self._skip.
\* Faulty variant of SkipKept: the items just loaded are skipped from now on.
SkipKeptWithItems(skip) ==
    SkipAfter(skip) \o [k \in 1..Len(nx_fields) |-> nx_fields[k].name]
SkipKept(skip) == SkipAfter(skip)

\* Lines 115-116: the datasets that are not skipped.
Items(skip) == SelectSeq(nx_fields, LAMBDA f : f.name \notin Range(skip))

ReadNone == [kind |-> "none", reached_items |-> FALSE, signal_name |-> NoAttr,
             dims |-> <<>>, axes |-> <<>>, coords |-> <<>>]

\* NXdata._getitem(select) for a group without errors dataset and without
\* auxiliary_signals: the result, with the names of the coordinates and their
\* dims in place of the DataArray.
NXdataGetitem(select) ==
    LET d == Dims
        index == ToPlainIndex(d.dims, select)
        signal == LoadDataset(Signal.shape, d.dims, index)
        Early(kind) == [ReadNone EXCEPT !.kind = kind, !.signal_name = SignalName,
                                        !.dims = d.dims]
    IN  IF d.kind # "ok" THEN Early("error")
        ELSE IF index.kind # "ok" THEN Early("ValueError")
        ELSE IF ~Signal.present \/ ~signal.ok THEN Early("error")
        ELSE LET c == LoadCoords(signal.axes, Items(SkipAfter(nx_skip)), select, <<>>)
             IN  [kind |-> c.kind, reached_items |-> TRUE,
                  signal_name |-> SignalName, dims |-> d.dims,
                  axes |-> signal.axes, coords |-> c.coords]

\* A read of the view with the caller's selection.
NxGetitem ==
    /\ nx_reads < MaxReads
    /\ nx_reads' = nx_reads + 1
    /\ nx_prev' = nx_read
    /\ nx_read' = NXdataGetitem(nx_select)
    /\ nx_skip' = IF NXdataGetitem(nx_select).reached_items
                  THEN SkipKept(nx_skip) ELSE nx_skip
    /\ UNCHANGED <<nx_axes, nx_axes_default, nx_signal, nx_dims, nx_signal_attr,
                   nx_signal_default, nx_legacy_signal, nx_fields, nx_select>>
    /\ UNCHANGED <<det_vars, tr_vars, more_vars, rest_vars>>

(***************************************************************************)
(* by_nx_class: bounds, inputs and operations                              *)
(***************************************************************************)

MaxGroups == 4      \* most groups of a file, the root included

\* The classes by_nx_class asks for (members of NX_class), and the values of
\* the NX_class attribute of a group: a known class, another, or no attribute.
KnownClasses == {"NXentry", "NXlog"}
ClassValues == KnownClasses \cup {"NXother", "absent"}

\* The groups a file may hold below the root <<>>, in the order in which
\* visititems goes through them.
AllPaths == << <<"a">>, <<"a", "a">>, <<"a", "b">>, <<"b">>, <<"b", "a">> >>

\* The files: the root and up to MaxGroups - 1 groups, each with its parent.
Files ==
    {S \cup {<<>>} : S \in
        {T \in SUBSET Range(AllPaths) :
            /\ Cardinality(T) < MaxGroups
            /\ \A q \in T : Len(q) > 1 => SubSeq(q, 1, Len(q) - 1) \in T}}

\* group.name of h5py: the full path.
RECURSIVE FullPath(_)
FullPath(q) == IF q = <<>> THEN "/"
               ELSE IF Len(q) = 1 THEN "/" \o q[1]
               ELSE FullPath(SubSeq(q, 1, Len(q) - 1)) \o "/" \o q[Len(q)]

\* LoadFromHdf5.get_name: group.name.split("/")[-1]
GetName(q) == IF q = <<>> THEN "" ELSE q[Len(q)]

\* find_by_nx_class for one class: the groups below root with this NX_class,
\* as visititems meets them, then root itself if it has the class.
FindByNxClass(class, root) ==
    LET Has(q) == q \in DOMAIN cls_groups /\ cls_groups[q] = class
    IN  SelectSeq(AllPaths,
                  LAMBDA q : /\ Has(q)
                             /\ Len(q) > Len(root)
                             /\ SubSeq(q, 1, Len(root)) = root)
            \o (IF Has(root) THEN <<root>> ELSE <<>>)

\* Lines 73-75 of by_nx_class: the leaf names, or the full paths when two
\* leaf names are the same.
\* Faulty variant of Names: the leaf names are used in any case.
NamesLeafOnly(groups) == [i \in 1..Len(groups) |-> GetName(groups[i])]
Names(groups) ==
    IF \E i, j \in 1..Len(groups) : i # j /\ GetName(groups[i]) = GetName(groups[j])
    THEN [i \in 1..Len(groups) |-> FullPath(groups[i])]
    ELSE [i \in 1..Len(groups) |-> GetName(groups[i])]

\* {n: Group(g) for n, g in zip(names, groups)}: a dict as the sequence of its
\* entries; a key met again keeps its place and takes the new value.
RECURSIVE DictOfZip(_, _, _)
DictOfZip(names, groups, d) ==
    IF names = <<>> THEN d
    ELSE LET hit == {i \in 1..Len(d) : d[i].key = Head(names)}
             e == [key |-> Head(names), group |-> Head(groups)]
         IN  DictOfZip(Tail(names), Tail(groups),
                       IF hit = {} THEN Append(d, e)
                       ELSE [i \in 1..Len(d) |-> IF i \in hit THEN e ELSE d[i]])

\* Group.by_nx_class called on the group root.
ByNxClass(root) ==
    [class \in KnownClasses |->
        DictOfZip(Names(FindByNxClass(class, root)), FindByNxClass(class, root), <<>>)]

ClsByNxClass ==
    /\ \E root \in DOMAIN cls_groups :
          /\ cls_query' = [called |-> TRUE, root |-> root]
          /\ cls_out' = ByNxClass(root)
    /\ UNCHANGED cls_groups
    /\ UNCHANGED <<det_vars, tr_vars, nx_vars, sel_vars, file_vars, ev_vars, log_vars,
                   rest_vars>>

(***************************************************************************)
(* File: "with File(...) as f: ..." on one of the files above              *)
(***************************************************************************)

\* self._file = h5py.File(*args, **kwargs): the handle is opened, or the call
\* raises and there is none.
FileOpen ==
    /\ file_pc = "start"
    /\ \E ok \in BOOLEAN :
          IF ok THEN /\ file_open' = TRUE
                     /\ file_opened' = file_opened + 1
                     /\ file_pc' = "opened"
          ELSE /\ file_pc' = "raised"
               /\ UNCHANGED <<file_open, file_opened>>
    /\ UNCHANGED <<det_vars, tr_vars, nx_vars, sel_vars, cls_vars, ev_vars, log_vars,
                   rest_vars>>

\* NXobject.__init__(self, self._file), the rest of File.__init__: it returns,
\* or it raises and File.__init__ is left with nothing done about self._file.
FileConstruct ==
    /\ file_pc = "opened"
    /\ \E ok \in BOOLEAN : file_pc' = IF ok THEN "constructed" ELSE "raised"
    /\ UNCHANGED <<file_open, file_opened>>
    /\ UNCHANGED <<det_vars, tr_vars, nx_vars, sel_vars, cls_vars, ev_vars, log_vars,
                   rest_vars>>

\* AbstractContextManager.__enter__ returns self.
FileEnter ==
    /\ file_pc = "constructed"
    /\ file_pc' = "inside"
    /\ UNCHANGED <<file_open, file_opened>>
    /\ UNCHANGED <<det_vars, tr_vars, nx_vars, sel_vars, cls_vars, ev_vars, log_vars,
                   rest_vars>>

\* A query of the file inside the with-block.
FileQuery ==
    /\ file_pc = "inside"
    /\ ClsByNxClass

\* The with-block ends, normally or by an exception: __exit__ closes the
\* handle and returns None, so that the exception goes on.
FileExit ==
    /\ file_pc = "inside"
    /\ \E raised \in BOOLEAN : file_pc' = IF raised THEN "raised" ELSE "exited"
    /\ file_open' = FALSE
    /\ UNCHANGED file_opened
    /\ UNCHANGED <<det_vars, tr_vars, nx_vars, sel_vars, cls_vars, ev_vars, log_vars,
                   rest_vars>>

(***************************************************************************)
(* NXdetector: events or dense data                                        *)
(***************************************************************************)

\* The names the NXevent_data groups below a detector may have.
EventGroupNames == {"data", "events_0", "events_1"}

EvNone == [kind |-> "none", group |-> "none"]
EvRaise(kind) == [kind |-> kind, group |-> "none"]
EvReturn(group) == [kind |-> "ok", group |-> group]

\* The first entry of by_nx_class()[NXevent_data].
FirstEntry == CHOOSE g \in ev_entries :
                  \A h \in ev_entries : g = h \/ (g = "data" /\ h # "data")
                                        \/ (g = "events_0" /\ h = "events_1")

\* A variant of _is_events that only looks at the child 'data' and does not
\* count the entries.
IsEventsDataOnly ==
    IF ev_entries # {} /\ ev_data = "other" THEN "raise"
    ELSE IF ev_entries # {} THEN "yes"
    ELSE IF "event_time_offset" \in ev_fields THEN "yes" ELSE "no"
\* NXdetector._is_events: "raise" (NexusStructureError), "yes" or "no".
IsEvents ==
    IF Cardinality(ev_entries) > 1 THEN "raise"
    ELSE IF Cardinality(ev_entries) = 1
         THEN IF ev_data = "other" THEN "raise" ELSE "yes"
    ELSE IF "event_time_offset" \in ev_fields THEN "yes" ELSE "no"

\* NXdetector.events: None, the detector group itself when it holds the event
\* fields, else the first NXevent_data entry.
Events ==
    CASE IsEvents = "raise" -> EvRaise("NexusStructureError")
      [] IsEvents = "no" -> EvReturn("None")
      [] OTHER -> IF "event_time_offset" \in ev_fields THEN EvReturn("self")
                  ELSE EvReturn(FirstEntry)

\* NXdetector._detector_number is there: 'detector_number' or 'pixel_id'.
HasDetectorNumber == ev_fields \cap {"detector_number", "pixel_id"} # {}

\* What a property or method of NXdetector gives: shape, dims and unit go
\* through _signal, the read through _nxdata; both ask _is_events first.  The
\* result names the event group used.  The dense signal is the child 'data',
\* the group has no signal attribute.
EvQuery(q) ==
    CASE q = "events" -> Events
      [] q = "select_events" ->
             CASE IsEvents = "raise" -> EvRaise("NexusStructureError")
               [] IsEvents = "no" -> EvRaise("NexusStructureError")
               [] OTHER -> EvReturn("EventSelector")
      [] IsEvents = "raise" -> EvRaise("NexusStructureError")
      [] IsEvents = "yes" ->
             IF q = "shape" /\ ~HasDetectorNumber
             THEN EvRaise("NexusStructureError") ELSE Events
      [] OTHER -> IF ev_data = "other" THEN EvReturn("data") ELSE EvRaise("error")

EvQueries == {"shape", "dims", "unit", "events", "select_events", "read"}

EvCall ==
    /\ \E q \in EvQueries :
          /\ ev_query' = q
          /\ ev_result' = EvQuery(q)
    /\ UNCHANGED <<ev_entries, ev_data, ev_fields>>
    /\ UNCHANGED <<det_vars, tr_vars, nx_vars, sel_vars, cls_vars, file_vars, log_vars,
                   rest_vars>>

(***************************************************************************)
(* Logs: _add_log_to_data                                                  *)
(***************************************************************************)

MaxLogEntries == 5  \* most entries of data

\* group.path.split('/') of the NXlog groups of a file.
LogPaths == { <<"", "log">>, <<"", "entry", "log">>, <<"", "a", "entry", "log">> }

\* Names data may hold before a log is added.
LogNames == {"log", "_log", "entry_log", "_entry_log"}

\* The loop of lines 100-107, from the name and the position -position in
\* group_path: the name stored, or IndexError when group_path has no entry
\* at the position.
RECURSIVE FindUniqueName(_, _, _, _, _)
FindUniqueName(name, position, changed, group_path, data) ==
    IF name \notin data
    THEN [kind |-> "stored", name |-> name, name_changed |-> changed]
    ELSE IF position > Len(group_path)
    THEN [kind |-> "IndexError", name |-> name, name_changed |-> TRUE]
    ELSE FindUniqueName(group_path[Len(group_path) - position + 1] \o "_" \o name,
                        position + 1, TRUE, group_path, data)

\* _add_log_to_data(log_data_name, log_data, group_path, data), called by
\* load_logs with the name of the group.
AddLogToData ==
    /\ Cardinality(log_data) < MaxLogEntries
    /\ \E group_path \in LogPaths :
          LET r == FindUniqueName(group_path[Len(group_path)], 2, FALSE,
                                  group_path, log_data)
          IN  /\ log_call' = group_path
              /\ log_result' = r
              /\ log_data' = IF r.kind = "stored" THEN log_data \cup {r.name}
                             ELSE log_data
              /\ log_warnings' = IF r.kind = "stored" /\ r.name_changed
                                 THEN log_warnings + 1 ELSE log_warnings
    /\ UNCHANGED <<log_groups, log_pos, log_pc>>
    /\ UNCHANGED <<det_vars, tr_vars, nx_vars, sel_vars, cls_vars, file_vars, ev_vars,
                   rest_vars>>

(***************************************************************************)
(* Logs: load_logs and _load_log_data_from_group                           *)
(***************************************************************************)

MaxLogGroups == 2   \* most groups of the list given to load_logs

\* An NXlog group: its path, its value dataset ("absent", "empty", "scalar",
\* "1d" or "2d"), its time dataset ("absent", of the "same" shape as the
\* value, of a "different" shape, or with a "bad_unit") and whether it
\* contains a stream.
LogGroup(path, value, time, contains_stream) ==
    [path |-> path, value |-> value, time |-> time,
     contains_stream |-> contains_stream]

LogGroupChoices ==
    { LogGroup(<<"", "log">>, "1d", "same", FALSE),
      LogGroup(<<"", "entry", "log">>, "1d", "absent", FALSE),
      LogGroup(<<"", "a", "entry", "log">>, "scalar", "absent", FALSE),
      LogGroup(<<"", "entry", "log">>, "absent", "same", FALSE),
      LogGroup(<<"", "entry", "log">>, "absent", "absent", TRUE),
      LogGroup(<<"", "log">>, "empty", "same", FALSE),
      LogGroup(<<"", "log">>, "1d", "different", FALSE),
      LogGroup(<<"", "log">>, "scalar", "different", FALSE),
      LogGroup(<<"", "entry", "log">>, "2d", "absent", FALSE),
      LogGroup(<<"", "entry", "log">>, "2d", "different", FALSE),
      LogGroup(<<"", "a", "entry", "log">>, "1d", "bad_unit", FALSE) }

\* _load_log_data_from_group: "BadSource", "SkipSource" or "loaded".
LoadLogDataFromGroup(group) ==
    CASE group.value = "absent" ->
             IF group.contains_stream THEN "SkipSource" ELSE "BadSource"
      [] group.value = "empty" -> "BadSource"
      [] group.time = "bad_unit" -> "BadSource"
      [] group.time = "different" -> "BadSource"
      [] group.value = "2d" -> "BadSource"
      [] OTHER -> "loaded"

\* One round of the loop of load_logs.  BadSource and SkipSource are caught,
\* the IndexError of _add_log_to_data is not and leaves load_logs.
LoadLogsRound ==
    /\ log_pc = "running"
    /\ LET group == log_groups[log_pos]
           loaded == LoadLogDataFromGroup(group)
           r == FindUniqueName(group.path[Len(group.path)], 2, FALSE,
                               group.path, log_data)
           last == log_pos = Len(log_groups)
       IN  /\ log_call' = group.path
           /\ IF loaded # "loaded"
              THEN /\ log_result' = [kind |-> loaded, name |-> "",
                                     name_changed |-> FALSE]
                   /\ log_warnings' = IF loaded = "BadSource"
                                      THEN log_warnings + 1 ELSE log_warnings
                   /\ UNCHANGED log_data
                   /\ log_pos' = log_pos + 1
                   /\ log_pc' = IF last THEN "done" ELSE "running"
              ELSE /\ log_result' = r
                   /\ IF r.kind = "stored"
                      THEN /\ log_data' = log_data \cup {r.name}
                           /\ log_warnings' = IF r.name_changed
                                              THEN log_warnings + 1
                                              ELSE log_warnings
                           /\ log_pos' = log_pos + 1
                           /\ log_pc' = IF last THEN "done" ELSE "running"
                      ELSE /\ log_pc' = "IndexError"
                           /\ UNCHANGED <<log_data, log_warnings, log_pos>>
    /\ UNCHANGED log_groups
    /\ UNCHANGED <<det_vars, tr_vars, nx_vars, sel_vars, cls_vars, file_vars, ev_vars,
                   rest_vars>>

(***************************************************************************)
(* Integer datasets: _ensure_supported_int_type and the two loads.  An       *)
(* element is the sequence of its bytes in two's complement, most           *)
(* significant byte first.                                                  *)
(***************************************************************************)

IntTypes == {"int8", "int16", "int32", "int64", "uint8", "uint16", "uint32", "uint64"}

\* The size of an element in bytes.
ItemSize(dtype) ==
    CASE dtype \in {"int8", "uint8"} -> 1
      [] dtype \in {"int16", "uint16"} -> 2
      [] dtype \in {"int32", "uint32"} -> 4
      [] dtype \in {"int64", "uint64"} -> 8

IsSigned(dtype) == dtype \in {"int8", "int16", "int32", "int64"}

\* The bytes an element is drawn from: the ends of both halves of the range.
ByteChoices == {0, 127, 128, 255}

\* _map_to_supported_type and _ensure_supported_int_type: any other type is
\* returned as it is.
EnsureSupportedIntType(dtype) ==
    CASE dtype \in {"int8", "int16", "uint8", "uint16", "uint32"} -> "int32"
      [] dtype = "uint64" -> "int64"
      [] OTHER -> dtype

\* The element widened to n bytes with its value kept: a negative element of
\* a signed type is filled with ones, any other with zeros.
Widen(dtype, bytes, n) ==
    LET fill == IF IsSigned(dtype) /\ bytes[1] >= 128 THEN 255 ELSE 0
    IN  [i \in 1..(n - Len(bytes)) |-> fill] \o bytes

\* The largest element of a signed type.
MaxOf(dtype) == [i \in 1..ItemSize(dtype) |-> IF i = 1 THEN 127 ELSE 255]

\* ndarray.astype(to) to a type that is not narrower: the element is widened;
\* between types of one size the bytes are kept.
AsType(dtype, bytes, to) == Widen(dtype, bytes, ItemSize(to))

\* Dataset.read_direct into an array of the type "to": HDF5 converts on
\* reading, and an element above the range of "to" becomes its largest.
ReadDirect(dtype, bytes, to) ==
    IF ~IsSigned(dtype) /\ IsSigned(to) /\ ItemSize(to) = ItemSize(dtype)
       /\ bytes[1] >= 128
    THEN MaxOf(to)
    ELSE Widen(dtype, bytes, ItemSize(to))

\* LoadFromHdf5.load_dataset without dtype: sc.empty of the supported type,
\* filled by read_direct.
IntLoadDataset ==
    /\ LET to == EnsureSupportedIntType(int_dtype)
       IN  int_loaded' = [how |-> "load_dataset", dtype |-> to,
                          bytes |-> ReadDirect(int_dtype, int_stored, to)]
    /\ UNCHANGED <<int_dtype, int_stored>>
    /\ UNCHANGED <<det_vars, tr_vars, nx_vars, more_vars, em_vars, st_vars>>

\* LoadFromHdf5.load_dataset_as_numpy_array: dataset[...].astype(...).
IntLoadAsNumpyArray ==
    /\ LET to == EnsureSupportedIntType(int_dtype)
       IN  int_loaded' = [how |-> "load_dataset_as_numpy_array", dtype |-> to,
                          bytes |-> AsType(int_dtype, int_stored, to)]
    /\ UNCHANGED <<int_dtype, int_stored>>
    /\ UNCHANGED <<det_vars, tr_vars, nx_vars, more_vars, em_vars, st_vars>>

(***************************************************************************)
(* convert: _deduce_energy_mode                                            *)
(***************************************************************************)

\* The coordinates a conversion may start from or lead to.
CoordNamesOfConvert == {"tof", "energy", "wavelength", "dspacing", "Q", "energy_transfer"}

\* _find_inelastic_inputs: the inelastic coords of the data, in this order.
FindInelasticInputs(coords) ==
    SelectSeq(<<"incident_energy", "final_energy">>, LAMBDA name : name \in coords)

\* _deduce_energy_mode(data, origin, target): the mode, or "RuntimeError".
\* A variant of DeduceEnergyMode that looks for 'energy' in the target only.
DeduceEnergyModeByTarget(coords, origin, target) ==
    LET inelastic_inputs == FindInelasticInputs(coords)
    IN  IF target = "energy_transfer"
        THEN IF Len(inelastic_inputs) > 1 THEN "RuntimeError"
             ELSE IF Len(inelastic_inputs) = 0 THEN "RuntimeError"
             ELSE IF inelastic_inputs[1] = "incident_energy"
                  THEN "direct_inelastic" ELSE "indirect_inelastic"
        ELSE IF target = "energy" /\ inelastic_inputs # <<>>
             THEN "RuntimeError"
             ELSE "elastic"
DeduceEnergyMode(coords, origin, target) ==
    LET inelastic_inputs == FindInelasticInputs(coords)
    IN  IF target = "energy_transfer"
        THEN IF Len(inelastic_inputs) > 1 THEN "RuntimeError"
             ELSE IF Len(inelastic_inputs) = 0 THEN "RuntimeError"
             ELSE IF inelastic_inputs[1] = "incident_energy"
                  THEN "direct_inelastic" ELSE "indirect_inelastic"
        ELSE IF "energy" \in {origin, target} /\ inelastic_inputs # <<>>
             THEN "RuntimeError"
             ELSE "elastic"

\* deduce_conversion_graph, the first step of convert, deduces the mode.
EmDeduce ==
    /\ em_mode' = DeduceEnergyMode(em_coords, em_origin, em_target)
    /\ UNCHANGED <<em_coords, em_origin, em_target>>
    /\ UNCHANGED <<det_vars, tr_vars, nx_vars, more_vars, int_vars, st_vars>>

(***************************************************************************)
(* Data stream: the generator _data_stream and its worker process          *)
(***************************************************************************)

MaxChunks == 2      \* halt_after_n_data_chunks

\* Lines 207-209: at least one of topics and run_info_topic must be given.
StCheckArgs ==
    /\ st_pc = "check"
    /\ st_pc' = IF ~st_args.topics /\ ~st_args.run_info_topic
                THEN "ValueError" ELSE "run_info"
    /\ UNCHANGED <<st_args, st_run_start, st_start_time, st_worker, st_consumers,
                   st_buffer, st_instructions, st_closed, st_exit, st_stop_put,
                   st_terminated, st_chunks>>
    /\ UNCHANGED <<det_vars, tr_vars, nx_vars, more_vars, int_vars, em_vars>>

\* Lines 230-240: with a run_info_topic the run-start message is fetched and
\* its data yielded as the first chunk.
StRunInfo ==
    /\ st_pc = "run_info"
    /\ IF st_args.run_info_topic
       THEN st_run_start' = TRUE /\ st_pc' = "first_chunk"
       ELSE UNCHANGED st_run_start /\ st_pc' = "start_time"
    /\ UNCHANGED <<st_args, st_start_time, st_worker, st_consumers,
                   st_buffer, st_instructions, st_closed, st_exit, st_stop_put,
                   st_terminated, st_chunks>>
    /\ UNCHANGED <<det_vars, tr_vars, nx_vars, more_vars, int_vars, em_vars>>

\* The consumer asks for the next chunk after the first, or closes the
\* generator, which then ends at the yield of line 240, outside the try.
StAfterFirstChunk ==
    /\ st_pc = "first_chunk"
    /\ \E closed \in BOOLEAN : st_pc' = IF closed THEN "closed" ELSE "start_time"
    /\ UNCHANGED <<st_args, st_run_start, st_start_time, st_worker, st_consumers,
                   st_buffer, st_instructions, st_closed, st_exit, st_stop_put,
                   st_terminated, st_chunks>>
    /\ UNCHANGED <<det_vars, tr_vars, nx_vars, more_vars, int_vars, em_vars>>

\* Lines 242-245: the start time is read from run_start_info, a name that is
\* bound only at line 232, or taken from the clock.
StStartTime ==
    /\ st_pc = "start_time"
    /\ IF st_args.start_at = "start_of_run"
       THEN IF st_run_start
            THEN st_start_time' = "run_start" /\ st_pc' = "start_worker"
            ELSE st_start_time' = "UnboundLocalError" /\ st_pc' = "UnboundLocalError"
       ELSE st_start_time' = "now" /\ st_pc' = "start_worker"
    /\ UNCHANGED <<st_args, st_run_start, st_worker, st_consumers,
                   st_buffer, st_instructions, st_closed, st_exit, st_stop_put,
                   st_terminated, st_chunks>>
    /\ UNCHANGED <<det_vars, tr_vars, nx_vars, more_vars, int_vars, em_vars>>

\* Line 259: data_collect_process.start(); the worker creates and starts its
\* consumers and its buffer and enters its loop.
StStartWorker ==
    /\ st_pc = "start_worker"
    /\ st_pc' = "loop"
    /\ st_worker' = "running"
    /\ st_consumers' = "started"
    /\ st_buffer' = "started"
    /\ UNCHANGED <<st_args, st_run_start, st_start_time, st_instructions, st_closed,
                   st_exit, st_stop_put, st_terminated, st_chunks>>
    /\ UNCHANGED <<det_vars, tr_vars, nx_vars, more_vars, int_vars, em_vars>>

\* The condition of the loop of lines 268-270; halt_after_n_warnings ends the
\* loop in the same way as halt_after_n_data_chunks and is counted with it.
StLoopCondition == st_worker # "dead" /\ st_chunks < MaxChunks

\* A round of the loop that yields a chunk (lines 274-283).
StYieldChunk ==
    /\ st_pc = "loop"
    /\ StLoopCondition
    /\ st_chunks' = st_chunks + 1
    /\ st_pc' = "yielded"
    /\ UNCHANGED <<st_args, st_run_start, st_start_time, st_worker, st_consumers,
                   st_buffer, st_instructions, st_closed, st_exit, st_stop_put,
                   st_terminated>>
    /\ UNCHANGED <<det_vars, tr_vars, nx_vars, more_vars, int_vars, em_vars>>

\* The consumer asks for the next chunk, or closes the generator:
\* GeneratorExit is raised at the yield, inside the try.
StAfterChunk ==
    /\ st_pc = "yielded"
    /\ \E closed \in BOOLEAN :
          IF closed THEN st_pc' = "finally" /\ st_exit' = "closed"
          ELSE st_pc' = "loop" /\ UNCHANGED st_exit
    /\ UNCHANGED <<st_args, st_run_start, st_start_time, st_worker, st_consumers,
                   st_buffer, st_instructions, st_closed, st_stop_put,
                   st_terminated, st_chunks>>
    /\ UNCHANGED <<det_vars, tr_vars, nx_vars, more_vars, int_vars, em_vars>>

\* The loop ends because its condition is false.
StLoopEnds ==
    /\ st_pc = "loop"
    /\ ~StLoopCondition
    /\ st_pc' = "finally"
    /\ st_exit' = "condition"
    /\ UNCHANGED <<st_args, st_run_start, st_start_time, st_worker, st_consumers,
                   st_buffer, st_instructions, st_closed, st_stop_put,
                   st_terminated, st_chunks>>
    /\ UNCHANGED <<det_vars, tr_vars, nx_vars, more_vars, int_vars, em_vars>>

\* A round of the loop raises: the TimeoutError of line 272, or any other
\* exception.
StLoopRaises ==
    /\ st_pc = "loop"
    /\ StLoopCondition
    /\ st_pc' = "finally"
    /\ st_exit' \in {"TimeoutError", "Exception"}
    /\ UNCHANGED <<st_args, st_run_start, st_start_time, st_worker, st_consumers,
                   st_buffer, st_instructions, st_closed, st_stop_put,
                   st_terminated, st_chunks>>
    /\ UNCHANGED <<det_vars, tr_vars, nx_vars, more_vars, int_vars, em_vars>>

\* Line 288: STOP_NOW is put on the instruction queue.
StPutStop ==
    /\ st_pc = "finally"
    /\ st_instructions' = Append(st_instructions, "STOP_NOW")
    /\ st_stop_put' = TRUE
    /\ st_pc' = "join"
    /\ UNCHANGED <<st_args, st_run_start, st_start_time, st_worker, st_consumers,
                   st_buffer, st_closed, st_exit, st_terminated, st_chunks>>
    /\ UNCHANGED <<det_vars, tr_vars, nx_vars, more_vars, int_vars, em_vars>>

\* Lines 291-292: whether terminate() is called after the join.
\* A variant of TerminateAfterJoin that never terminates the worker.
TerminateNever(worker) == FALSE
TerminateAfterJoin(worker) == worker # "dead"

\* Lines 289-292: the join returns when the worker has ended or after
\* process_halt_timeout_s; a worker still alive then is terminated.
StJoin ==
    /\ st_pc = "join"
    /\ st_terminated' = TerminateAfterJoin(st_worker)
    /\ st_pc' = "cleanup_queues"
    /\ UNCHANGED <<st_args, st_run_start, st_start_time, st_worker, st_consumers,
                   st_buffer, st_instructions, st_closed, st_exit, st_stop_put,
                   st_chunks>>
    /\ UNCHANGED <<det_vars, tr_vars, nx_vars, more_vars, int_vars, em_vars>>

\* The queues _cleanup_queue is given: test_message_queue may be None.
StQueues == {"data_queue", "worker_instruction_queue"}
                \cup (IF st_args.test_message_queue THEN {"test_message_queue"} ELSE {})

\* Lines 293-294 with _cleanup_queue: every queue is emptied and closed.
StCleanupQueues ==
    /\ st_pc = "cleanup_queues"
    /\ st_instructions' = <<>>
    /\ st_closed' = StQueues
    /\ st_pc' = "ended"
    /\ UNCHANGED <<st_args, st_run_start, st_start_time, st_worker, st_consumers,
                   st_buffer, st_exit, st_stop_put, st_terminated, st_chunks>>
    /\ UNCHANGED <<det_vars, tr_vars, nx_vars, more_vars, int_vars, em_vars>>

\* The worker takes STOP_NOW from the queue (lines 148-152): it stops its
\* consumers and its buffer and leaves its loop.
StWorkerStops ==
    /\ st_worker = "running"
    /\ st_instructions # <<>>
    /\ Head(st_instructions) = "STOP_NOW"
    /\ st_instructions' = Tail(st_instructions)
    /\ st_consumers' = "stopped"
    /\ st_buffer' = "stopped"
    /\ st_worker' = "left_loop"
    /\ UNCHANGED <<st_args, st_pc, st_run_start, st_start_time, st_closed, st_exit,
                   st_stop_put, st_terminated, st_chunks>>
    /\ UNCHANGED <<det_vars, tr_vars, nx_vars, more_vars, int_vars, em_vars>>

\* The worker finds its queue closed (lines 155-159) and stops as well.
StWorkerQueueClosed ==
    /\ st_worker = "running"
    /\ "worker_instruction_queue" \in st_closed
    /\ st_consumers' = "stopped"
    /\ st_buffer' = "stopped"
    /\ st_worker' = "left_loop"
    /\ UNCHANGED <<st_args, st_pc, st_run_start, st_start_time, st_instructions,
                   st_closed, st_exit, st_stop_put, st_terminated, st_chunks>>
    /\ UNCHANGED <<det_vars, tr_vars, nx_vars, more_vars, int_vars, em_vars>>

\* The worker process ends: data_consumption_manager has returned after the
\* loop, the process was terminated, or it has died in its loop.
StWorkerEnds ==
    /\ st_worker \in {"running", "left_loop"}
    /\ st_worker' = "dead"
    /\ UNCHANGED <<st_args, st_pc, st_run_start, st_start_time, st_consumers,
                   st_buffer, st_instructions, st_closed, st_exit, st_stop_put,
                   st_terminated, st_chunks>>
    /\ UNCHANGED <<det_vars, tr_vars, nx_vars, more_vars, int_vars, em_vars>>

\* The worker ends once it has left its loop or was terminated.
StWorkerMustEnd ==
    /\ st_worker = "left_loop" \/ st_terminated
    /\ StWorkerEnds

(***************************************************************************)
(* Initial states and specifications                                       *)
(***************************************************************************)

TrStart ==
    /\ transformations = <<>>
    /\ tr_t = 0
    /\ tr_walked = <<>>
    /\ tr_pc = "idle"
    /\ tr_warnings = 0
    /\ total_transform = NoTransform

TrIdle ==
    /\ tr_nodes = <<>>
    /\ comp_depends_on = DependsAbsent
    /\ TrStart

\* No read of the view was made yet.
NxUnread ==
    /\ nx_dims = DimsNone
    /\ nx_reads = 0
    /\ nx_read = ReadNone
    /\ nx_prev = ReadNone

\* The group as NXdata.dims sees it: the signal is named by the 'signal'
\* attribute of the group.
NxPlainGroup ==
    /\ nx_signal_attr = Attr(DataName)
    /\ nx_signal_default = NoAttr
    /\ nx_legacy_signal = FALSE
    /\ nx_fields = <<>>
    /\ nx_skip = <<>>
    /\ nx_select = SelectEllipsis

NxIdle ==
    /\ nx_axes = NoAttr
    /\ nx_axes_default = NoAttr
    /\ nx_signal = NoDataset
    /\ NxPlainGroup
    /\ NxUnread

SelIdle ==
    /\ sel_dims = <<>>
    /\ sel_child_dims = <<>>
    /\ sel_given = SelectEllipsis
    /\ sel_select = SelectEllipsis
    /\ sel_index = [select |-> SelectOther, out |-> SelNone]
    /\ sel_child = [select |-> SelectOther, out |-> ChildNone]

DetIdle ==
    /\ event_id = <<>>
    /\ detector_number = NoField
    /\ det_select = NoSelect
    /\ det_result = DetNone
    /\ det_query = QueryNone

ClsUncalled ==
    /\ cls_query = [called |-> FALSE, root |-> <<>>]
    /\ cls_out = [class \in KnownClasses |-> <<>>]

ClsIdle ==
    /\ cls_groups = <<>>
    /\ ClsUncalled

FileIdle ==
    /\ file_pc = "idle"
    /\ file_open = FALSE
    /\ file_opened = 0

EvUncalled ==
    /\ ev_query = "none"
    /\ ev_result = EvNone

EvIdle ==
    /\ ev_entries = {}
    /\ ev_data = "absent"
    /\ ev_fields = {}
    /\ EvUncalled

LogUncalled ==
    /\ log_call = <<>>
    /\ log_result = [kind |-> "none", name |-> "", name_changed |-> FALSE]
    /\ log_warnings = 0

LogNoList ==
    /\ log_groups = <<>>
    /\ log_pos = 0
    /\ log_pc = "idle"

LogIdle ==
    /\ log_data = {}
    /\ LogUncalled
    /\ LogNoList

IntIdle ==
    /\ int_dtype = "none"
    /\ int_stored = <<>>
    /\ int_loaded = [how |-> "none", dtype |-> "none", bytes |-> <<>>]

EmIdle ==
    /\ em_coords = {}
    /\ em_origin = "none"
    /\ em_target = "none"
    /\ em_mode = "none"

StUncalled ==
    /\ st_run_start = FALSE
    /\ st_start_time = "none"
    /\ st_worker = "unstarted"
    /\ st_consumers = "unstarted"
    /\ st_buffer = "unstarted"
    /\ st_instructions = <<>>
    /\ st_closed = {}
    /\ st_exit = "none"
    /\ st_stop_put = FALSE
    /\ st_terminated = FALSE
    /\ st_chunks = 0

StIdle ==
    /\ st_args = [topics |-> FALSE, run_info_topic |-> FALSE, start_at |-> "now",
                  test_message_queue |-> FALSE]
    /\ st_pc = "idle"
    /\ StUncalled

RestIdle == IntIdle /\ EmIdle /\ StIdle

MoreIdle == SelIdle /\ ClsIdle /\ FileIdle /\ EvIdle /\ LogIdle /\ RestIdle

DetInit ==
    /\ event_id \in SeqsUpTo(Ids, MaxEvents)
    /\ detector_number \in
           {NoField} \cup {SomeField(v) : v \in DistinctSeqsUpTo(Ids, MaxPixels) \ {<<>>}}
    /\ det_select = NoSelect
    /\ det_result = DetNone
    /\ det_query = QueryNone
    /\ TrIdle
    /\ NxIdle
    /\ MoreIdle

DetNext == DetReadFull \/ DetReadSlice \/ DetShape \/ DetDims

SpecDetector == DetInit /\ [][DetNext]_vars

\* Files whose links are static datasets or streamed NXlogs.
TrInit ==
    /\ \E bodies \in SeqsUpTo(StaticChoices, MaxChain) :
          IF bodies = <<>>
          THEN /\ tr_nodes = <<>>
               /\ comp_depends_on \in {DependsAbsent, DependsDot}
          ELSE /\ \E end \in Ends : tr_nodes = ChainFile(bodies, end)
               /\ comp_depends_on = DependsPath(1)
    /\ TrStart
    /\ DetIdle
    /\ NxIdle
    /\ MoreIdle

\* Files whose links are NXlogs of translations (link i along axis i) or a
\* static rotation.
LogChoices(i) ==
    {LogNode(Axis(i), S) : S \in (SUBSET (1..MaxTime)) \ {{}}}
        \cup {StaticNode("rotation", <<0, 0, 1>>, 90, "deg", NoOffset)}

TrLogInit ==
    /\ \E n \in 1..MaxLogChain :
          \E bodies \in [1..n -> UNION {LogChoices(i) : i \in 1..n}] :
              /\ \A i \in 1..n : bodies[i] \in LogChoices(i)
              /\ \E end \in Ends : tr_nodes = ChainFile(bodies, end)
    /\ comp_depends_on = DependsPath(1)
    /\ TrStart
    /\ DetIdle
    /\ NxIdle
    /\ MoreIdle

TrNext == TrBegin \/ TrWalkStep \/ TrWalkEnd \/ TrCompose

SpecTransform == TrInit /\ [][TrNext]_vars

SpecTransformLog == TrLogInit /\ [][TrNext]_vars

NxInit ==
    /\ nx_axes \in {NoAttr} \cup {Attr(a) : a \in SeqsUpTo(AxisNames, MaxRank)}
    /\ nx_axes_default \in {NoAttr, Attr(<<<<"z">>>>), Attr(<<<<".">>, <<"z">>>>)}
    /\ nx_signal \in {NoDataset} \cup
           {SignalDataset(shape, axes) :
               shape \in SeqsUpTo(Extents, MaxRank),
               axes \in {NoAttr} \cup {Attr(c) : c \in SeqsUpTo(AxesChars, MaxAxesLen)}}
    /\ NxPlainGroup
    /\ NxUnread
    /\ DetIdle
    /\ TrIdle
    /\ MoreIdle

NxNext == NxReadDims

SpecData == NxInit /\ [][NxNext]_vars

\* Groups with further datasets, read with a selection.
NxReadInit ==
    /\ nx_axes \in ReadAxes
    /\ nx_axes_default = NoAttr
    /\ nx_signal \in ReadSignals
    /\ \E how \in {"attr", "default", "legacy", "none"} :
          /\ nx_signal_attr = IF how = "attr" THEN Attr(DataName) ELSE NoAttr
          /\ nx_signal_default = IF how = "default" THEN Attr(DataName) ELSE NoAttr
          /\ nx_legacy_signal = (how = "legacy")
    /\ nx_fields \in {fs \in SeqsUpTo(FieldChoices, MaxFields) :
                         \A i, j \in 1..Len(fs) : i # j => fs[i].name # fs[j].name}
    /\ nx_skip \in {<<>>, <<<<"t">>>>, NxEventDataFields}
    /\ nx_select \in ReadSelects
    /\ NxUnread
    /\ DetIdle
    /\ TrIdle
    /\ MoreIdle

NxReadNext == NxGetitem

SpecDataRead == NxReadInit /\ [][NxReadNext]_vars

\* Calls of to_plain_index and to_child_select on a dataset or class with the
\* dims x, y in some order, or a part of them.
SelInit ==
    /\ sel_dims \in DistinctSeqsUpTo({<<"x">>, <<"y">>}, MaxSelRank)
    /\ sel_child_dims \in DistinctSeqsUpTo({<<"x">>, <<"y">>}, MaxSelRank)
    /\ sel_given \in ScippIndex
    /\ sel_select = sel_given
    /\ sel_index = [select |-> SelectOther, out |-> SelNone]
    /\ sel_child = [select |-> SelectOther, out |-> ChildNone]
    /\ DetIdle
    /\ TrIdle
    /\ NxIdle
    /\ ClsIdle /\ FileIdle /\ EvIdle /\ LogIdle /\ RestIdle

SelNext == SelToPlainIndex \/ SelToChildSelect

SpecSelect == SelInit /\ [][SelNext]_vars

ClsInit ==
    /\ \E S \in Files : cls_groups \in [S -> ClassValues]
    /\ ClsUncalled
    /\ DetIdle
    /\ TrIdle
    /\ NxIdle
    /\ SelIdle /\ FileIdle /\ EvIdle /\ LogIdle /\ RestIdle

ClsNext == ClsByNxClass

SpecClasses == ClsInit /\ [][ClsNext]_vars

\* "with File(...)" on any of the files.
FileInit ==
    /\ \E S \in Files : cls_groups \in [S -> ClassValues]
    /\ ClsUncalled
    /\ file_pc = "start"
    /\ file_open = FALSE
    /\ file_opened = 0
    /\ DetIdle
    /\ TrIdle
    /\ NxIdle
    /\ SelIdle /\ EvIdle /\ LogIdle /\ RestIdle

FileNext == FileOpen \/ FileConstruct \/ FileEnter \/ FileQuery \/ FileExit

SpecFile == FileInit /\ [][FileNext]_vars

\* The detectors: the child 'data', if there is one, is an NXevent_data group
\* ("data" is among the entries) or something else.
EvInit ==
    /\ ev_entries \in SUBSET EventGroupNames
    /\ ev_data \in IF "data" \in ev_entries THEN {"NXevent_data"}
                   ELSE {"absent", "other"}
    /\ ev_fields \in SUBSET {"event_time_offset", "detector_number", "pixel_id"}
    /\ EvUncalled
    /\ DetIdle
    /\ TrIdle
    /\ NxIdle
    /\ SelIdle /\ ClsIdle /\ FileIdle /\ LogIdle /\ RestIdle

EvNext == EvCall

SpecEvents == EvInit /\ [][EvNext]_vars

\* data holds any of the names before the logs of the file are added.
LogInit ==
    /\ log_data \in SUBSET LogNames
    /\ LogUncalled
    /\ LogNoList
    /\ DetIdle
    /\ TrIdle
    /\ NxIdle
    /\ SelIdle /\ ClsIdle /\ FileIdle /\ EvIdle /\ RestIdle

LogNext == AddLogToData

SpecLogs == LogInit /\ [][LogNext]_vars

\* load_logs on a list of groups, data holding any of the names.
LoadLogsInit ==
    /\ log_data \in SUBSET LogNames
    /\ LogUncalled
    /\ log_groups \in SeqsUpTo(LogGroupChoices, MaxLogGroups) \ {<<>>}
    /\ log_pos = 1
    /\ log_pc = "running"
    /\ DetIdle
    /\ TrIdle
    /\ NxIdle
    /\ SelIdle /\ ClsIdle /\ FileIdle /\ EvIdle /\ RestIdle

LoadLogsNext == LoadLogsRound

SpecLoadLogs == LoadLogsInit /\ [][LoadLogsNext]_vars

\* A dataset of any integer type holding any element.
IntInit ==
    /\ int_dtype \in IntTypes
    /\ int_stored \in [1..ItemSize(int_dtype) -> ByteChoices]
    /\ int_loaded = [how |-> "none", dtype |-> "none", bytes |-> <<>>]
    /\ DetIdle
    /\ TrIdle
    /\ NxIdle
    /\ SelIdle /\ ClsIdle /\ FileIdle /\ EvIdle /\ LogIdle
    /\ EmIdle /\ StIdle

IntNext == IntLoadDataset \/ IntLoadAsNumpyArray

SpecIntTypes == IntInit /\ [][IntNext]_vars

\* convert on data with any of the inelastic coords, from any origin to any
\* target.
EmInit ==
    /\ em_coords \in SUBSET {"incident_energy", "final_energy"}
    /\ em_origin \in CoordNamesOfConvert
    /\ em_target \in CoordNamesOfConvert
    /\ em_mode = "none"
    /\ DetIdle
    /\ TrIdle
    /\ NxIdle
    /\ SelIdle /\ ClsIdle /\ FileIdle /\ EvIdle /\ LogIdle
    /\ IntIdle /\ StIdle

EmNext == EmDeduce

SpecEnergyMode == EmInit /\ [][EmNext]_vars

\* A call of _data_stream with any topics, run_info_topic and start_at.
StInit ==
    /\ st_args \in [topics : BOOLEAN, run_info_topic : BOOLEAN,
                     start_at : {"now", "start_of_run"},
                     test_message_queue : BOOLEAN]
    /\ st_pc = "check"
    /\ StUncalled
    /\ DetIdle
    /\ TrIdle
    /\ NxIdle
    /\ SelIdle /\ ClsIdle /\ FileIdle /\ EvIdle /\ LogIdle
    /\ IntIdle /\ EmIdle

StNext ==
    \/ StCheckArgs \/ StRunInfo \/ StAfterFirstChunk \/ StStartTime
    \/ StStartWorker \/ StYieldChunk \/ StAfterChunk \/ StLoopEnds \/ StLoopRaises
    \/ StPutStop \/ StJoin \/ StCleanupQueues
    \/ StWorkerStops \/ StWorkerQueueClosed \/ StWorkerEnds

SpecStream == StInit /\ [][StNext]_vars

\* The finally block runs on once it is entered, and a worker that has left
\* its loop or was terminated ends.
SpecStreamFair ==
    /\ SpecStream
    /\ WF_vars(StPutStop) /\ WF_vars(StJoin) /\ WF_vars(StCleanupQueues)
    /\ WF_vars(StWorkerMustEnd)

(***************************************************************************)
(* NXdetector: the claims                                                  *)
(***************************************************************************)

DetWasRead == det_result.kind # "none"

BucketSizes(r) == [i \in 1..Len(r.buckets) |-> Len(r.buckets[i])]

\* The number of events of the table that carry the id.
CountOf(id) == Cardinality({k \in 1..Len(event_id) : event_id[k] = id})

\* The rows held by a bucket, as a set.
RowSet(b) == {b[j] : j \in 1..Len(b)}

\* C1 (as claimed): after a full read of a detector with a detector_number
\* field, the read succeeded and the sizes of the per-pixel buckets sum to the
\* number of events of the event table.
C1_Conservation ==
    (DetWasRead /\ detector_number.present /\ IsFullSelect(det_select)) =>
        /\ det_result.kind = "ok"
        /\ SumSeq(BucketSizes(det_result)) = Len(event_id)

\* C2 (as claimed): after a full read of a detector with a detector_number
\* field, if some event carries an id that is not a declared detector number,
\* the read has failed.
C2_UnknownIdFails ==
    (/\ DetWasRead /\ detector_number.present /\ IsFullSelect(det_select)
     /\ \E k \in 1..Len(event_id) :
            \A i \in 1..Len(detector_number.values) :
                event_id[k] # detector_number.values[i])
    => det_result.kind = "error"

\* C3: after a full read of a detector without detector_number whose event
\* table is not empty, the pixels of the result are exactly the integers from
\* the smallest to the largest event id, in order, one bucket for each, and the
\* bucket of pixel p holds as many events as carry p (none, for an integer of
\* the range that no event carries).
C3_InferredRange ==
    (/\ DetWasRead /\ ~detector_number.present /\ IsFullSelect(det_select)
     /\ event_id # <<>>)
    => /\ det_result.kind = "ok"
       /\ LET px == det_result.detector_number
              n  == Len(px)
          IN  /\ n >= 1
              /\ \E k \in 1..Len(event_id) : event_id[k] = px[1]
              /\ \E k \in 1..Len(event_id) : event_id[k] = px[n]
              /\ \A k \in 1..Len(event_id) : px[1] <= event_id[k] /\ event_id[k] <= px[n]
              /\ \A i \in 1..(n - 1) : px[i + 1] = px[i] + 1
              /\ Len(det_result.buckets) = n
              /\ \A i \in 1..n : Len(det_result.buckets[i]) = CountOf(px[i])

\* C3 witness: a read without detector_number has inferred three pixels, the
\* middle one carried by no event.
C3_Witness ==
    /\ DetWasRead /\ ~detector_number.present /\ det_result.kind = "ok"
    /\ Len(det_result.buckets) = 3
    /\ det_result.buckets[2] = <<>>
    /\ Len(det_result.buckets[1]) = 2

\* The detector numbers a selection keeps: all of them, or those at the
\* positions start+1 .. stop.
SelectedPixel(i) ==
    IF det_select.kind = "slice"
    THEN detector_number.values[det_select.start + i]
    ELSE detector_number.values[i]
SelectedCount ==
    IF det_select.kind = "slice"
    THEN det_select.stop - det_select.start
    ELSE Len(detector_number.values)

\* C4: after a read of a detector with a detector_number field, the result has
\* exactly one bucket per (selected) declared pixel, in the order in which the
\* pixels are declared; bucket i holds exactly the events whose id is the i-th
\* declared detector number, each once, and is empty when there is none.
C4_OneBucketPerPixel ==
    (DetWasRead /\ detector_number.present) =>
        /\ det_result.kind = "ok"
        /\ Len(det_result.buckets) = SelectedCount
        /\ Len(det_result.detector_number) = SelectedCount
        /\ \A i \in 1..SelectedCount :
              /\ det_result.detector_number[i] = SelectedPixel(i)
              /\ RowSet(det_result.buckets[i]) =
                     {k \in 1..Len(event_id) : event_id[k] = SelectedPixel(i)}
              /\ Len(det_result.buckets[i]) = CountOf(SelectedPixel(i))

\* C4 witness: a full read with two declared pixels, not declared in
\* ascending order, has given an empty bucket and a bucket of two events.
C4_Witness ==
    /\ DetWasRead /\ detector_number.present /\ IsFullSelect(det_select)
    /\ det_result.kind = "ok"
    /\ Len(det_result.buckets) = 2
    /\ det_result.detector_number[1] > det_result.detector_number[2]
    /\ det_result.buckets[1] = <<>>
    /\ Len(det_result.buckets[2]) = 2

\* The buckets and pixels of a result that a selection keeps.
SliceOfResult(r, select) ==
    IF r.kind # "ok" \/ select.kind # "slice" THEN r
    ELSE DetOk(SubSeq(r.detector_number, select.start + 1, select.stop),
               SubSeq(r.buckets, select.start + 1, select.stop))

\* C24: a read of a detector with a detector_number field with the pixel
\* selector S gives what the full read gives, sliced with S.
C24_SelectionCommutesWithBinning ==
    (DetWasRead /\ detector_number.present) =>
        det_result = SliceOfResult(Getitem([kind |-> "Ellipsis", start |-> 0, stop |-> 0]),
                                   det_select)

\* C24 witness: the second of two pixels was read alone, and it has events.
C24_Witness ==
    /\ DetWasRead /\ detector_number.present
    /\ Len(detector_number.values) = 2
    /\ det_select = [kind |-> "slice", start |-> 1, stop |-> 2]
    /\ det_result.kind = "ok"
    /\ Len(det_result.buckets) = 1
    /\ det_result.buckets[1] # <<>>

\* C25: of a detector without detector_number, a read with a selector other
\* than Ellipsis, () and slice(None) raises NexusStructureError and gives no
\* data, the shape raises NexusStructureError, and the dims are
\* ['detector_number'].
C25_NoDetectorNumber ==
    ~detector_number.present =>
        /\ (DetWasRead /\ ~(det_select.kind \in {"Ellipsis", "empty_tuple", "slice_none"}))
               => det_result = DetError
        /\ det_query.op = "shape" => det_query.kind = "NexusStructureError"
        /\ det_query.op = "dims" => det_query = QueryOk("dims", <<"detector_number">>)

\* C25 witness: a slice was refused and the shape was asked for, of a detector
\* with events and no detector_number.
C25_Witness ==
    /\ ~detector_number.present /\ event_id # <<>>
    /\ det_select.kind = "slice" /\ det_result = DetError
    /\ det_query = QueryRaise("shape")

(***************************************************************************)
(* NXtransformations: the claims                                           *)
(***************************************************************************)

NumNodes == Len(tr_nodes)

\* The file is a chain that ends: the last link has no depends_on or '.'.
ChainEnds == NumNodes >= 1 /\ tr_nodes[NumNodes].depends_on.kind # "path"

HasUnits(node) ==
    /\ node.units # "none"
    /\ node.offset.present => node.offset.units # "none"

AllStatic == \A i \in 1..NumNodes : tr_nodes[i].nature = "static" /\ HasUnits(tr_nodes[i])

\* The matrix of the static link i, as Transformation.__getitem__ gives it.
LinkMat(i) == SampleMat(tr_nodes[i], tr_nodes[i].value[1])

\* T_k * ... * T_2 * T_1 * identity.
RECURSIVE ProductUpTo(_)
ProductUpTo(k) == IF k = 0 THEN Identity4 ELSE MatMul(LinkMat(k), ProductUpTo(k - 1))

\* identity * T_1 * T_2 * ... * T_k: the links applied in the opposite order.
RECURSIVE ProductOpposite(_)
ProductOpposite(k) ==
    IF k = 0 THEN Identity4 ELSE MatMul(ProductOpposite(k - 1), LinkMat(k))

\* C5: for a chain of static links T1 -> T2 -> ... -> Tn that ends, the walk
\* does not fail, collects the transforms of T1, ..., Tn in this order, and
\* the matrix returned is Tn * ... * T2 * T1 * identity.
C5_DependencyOrder ==
    (ChainEnds /\ AllStatic) =>
        /\ tr_pc # "error"
        /\ \A i \in 1..Len(transformations) :
              /\ i <= NumNodes
              /\ tr_walked[i] = i
              /\ transformations[i] = StaticTransform(LinkMat(i))
        /\ tr_pc \in {"compose", "done"} => Len(transformations) = NumNodes
        /\ tr_pc = "done" => total_transform = StaticTransform(ProductUpTo(NumNodes))

\* C5 witness: the chain "translation by 2 m along -z, which depends on a
\* rotation by 90 degrees about y" has been composed; the origin is moved to
\* (-2, 0, 0), which the opposite order of multiplication does not give.
C5_Witness ==
    /\ tr_pc = "done" /\ ChainEnds /\ AllStatic /\ NumNodes = 2
    /\ tr_nodes[1].transformation_type = "translation"
    /\ tr_nodes[2].transformation_type = "rotation"
    /\ ~tr_nodes[2].offset.present
    /\ total_transform.m[1].a[1][4] = -2
    /\ total_transform.m[1].a[2][4] = 0
    /\ total_transform.m[1].a[3][4] = 0
    /\ total_transform.m[1].a # ProductOpposite(2)

\* C6: a depends_on of '.' ends the chain and adds no transformation: for a
\* chain of n static links whose last depends_on is '.', never more than n
\* transformations are collected, exactly n once the walk is over, and the
\* result is Tn * ... * T1, as for the chain whose last link has no
\* depends_on; a component whose own depends_on is '.' or absent collects
\* nothing, emits no warning and gets the identity.
C6_DotEndsChain ==
    /\ (ChainEnds /\ AllStatic /\ tr_nodes[NumNodes].depends_on.kind = "dot") =>
          /\ tr_pc # "error"
          /\ Len(transformations) <= NumNodes
          /\ Len(tr_walked) <= NumNodes
          /\ tr_pc \in {"compose", "done"} => Len(transformations) = NumNodes
          /\ tr_pc = "done" => total_transform = StaticTransform(ProductUpTo(NumNodes))
    /\ (comp_depends_on.kind \in {"dot", "absent"}) =>
          /\ tr_pc \in {"idle", "compose", "done"}
          /\ transformations = <<>>
          /\ tr_walked = <<>>
          /\ tr_warnings = 0
          /\ tr_pc = "done" => total_transform = StaticTransform(Identity4)

\* C6 witness: a chain of two static links whose last depends_on is '.' has
\* been composed from exactly two transformations.
C6_Witness ==
    /\ tr_pc = "done" /\ AllStatic /\ NumNodes = 2
    /\ tr_nodes[2].depends_on.kind = "dot"
    /\ Len(transformations) = 2
    /\ total_transform.m[1].a # Identity4

\* The time-logged links of the file.
LogLinks == {i \in 1..NumNodes : tr_nodes[i].nature = "log"}

LogTimes(i) == Range(tr_nodes[i].time)

\* The latest of the logs' first timestamps.
LatestLogStart == SetMax({SetMin(LogTimes(i)) : i \in LogLinks})

\* What link i contributes at time x: its only matrix if it is static, else
\* the matrix of its most recent sample at or before x.
HeldMat(i, x) ==
    IF tr_nodes[i].nature = "static" THEN LinkMat(i)
    ELSE LET k == CHOOSE k \in 1..Len(tr_nodes[i].time) :
                      /\ tr_nodes[i].time[k] <= x
                      /\ \A l \in 1..Len(tr_nodes[i].time) :
                            tr_nodes[i].time[l] <= x =>
                                tr_nodes[i].time[l] <= tr_nodes[i].time[k]
         IN  SampleMat(tr_nodes[i], tr_nodes[i].value[k])

RECURSIVE HeldProduct(_, _)
HeldProduct(k, x) ==
    IF k = 0 THEN Identity4 ELSE MatMul(HeldMat(k, x), HeldProduct(k - 1, x))

\* C7: when two or more links of a chain that ends are time-logged, the result
\* has exactly one matrix per timestamp of the union of the logs' timestamps
\* that is not earlier than the latest of the logs' first timestamps, in
\* ascending order; the matrix at a timestamp is composed of each log's most
\* recent sample at or before it, and no NaN is returned.
C7_UnionHoldLastClip ==
    (tr_pc = "done" /\ ChainEnds /\ Cardinality(LogLinks) >= 2) =>
        /\ total_transform.timed
        /\ Len(total_transform.m) = Len(total_transform.time)
        /\ Range(total_transform.time) =
               {x \in UNION {LogTimes(i) : i \in LogLinks} : x >= LatestLogStart}
        /\ \A j \in 1..(Len(total_transform.time) - 1) :
               total_transform.time[j] < total_transform.time[j + 1]
        /\ \A j \in 1..Len(total_transform.time) :
              /\ \A i \in LogLinks : total_transform.time[j] >= SetMin(LogTimes(i))
              /\ total_transform.m[j] =
                     Elem(HeldProduct(NumNodes, total_transform.time[j]))

\* C7 witness: logs with the timestamps {1, 3} and {2} have been composed to
\* matrices at the timestamps 2 and 3; at 2 the first log holds its sample of
\* time 1 (1 m along x) and the second gives its sample of time 2 (2 m along y).
C7_Witness ==
    /\ tr_pc = "done" /\ NumNodes = 2 /\ LogLinks = {1, 2}
    /\ tr_nodes[1].time = <<1, 3>>
    /\ tr_nodes[2].time = <<2>>
    /\ total_transform.time = <<2, 3>>
    /\ total_transform.m[1].a[1][4] = 1
    /\ total_transform.m[1].a[2][4] = 2
    /\ total_transform.m[2].a[1][4] = 3

\* C8 (as claimed): the walk never fails at a streamed NXlog, whether it is the
\* first link or a later one.
C8_StreamNeverRaises ==
    tr_pc = "error" => tr_nodes[tr_walked[Len(tr_walked)]].nature # "stream"

\* C9: a node that the walk resolves and whose value has no unit, or whose
\* offset has no offset_units, makes the walk fail at this node: it adds no
\* transformation and no transform is returned.
C9_MissingUnitFails ==
    \A k \in 1..Len(tr_walked) :
        (LET node == tr_nodes[tr_walked[k]]
         IN  node.nature # "stream" /\ ~HasUnits(node)) =>
            /\ tr_pc = "error"
            /\ k = Len(tr_walked)
            /\ Len(transformations) = k - 1
            /\ total_transform = NoTransform

\* C9 witness: the walk has failed at its second link, a translation with an
\* offset and no offset_units, after a first link with all its units.
C9_Witness ==
    /\ tr_pc = "error" /\ Len(tr_walked) = 2
    /\ HasUnits(tr_nodes[tr_walked[1]])
    /\ tr_nodes[tr_walked[2]].units = "m"
    /\ tr_nodes[tr_walked[2]].offset.present
    /\ tr_nodes[tr_walked[2]].offset.units = "none"
    /\ total_transform = NoTransform

\* C30: the walk resolves no link twice (and so ends after at most as many
\* rounds as the file has links).
C30_EachLinkVisitedOnce ==
    \A i, j \in 1..Len(tr_walked) : i # j => tr_walked[i] # tr_walked[j]

(***************************************************************************)
(* NXdata: the claims                                                      *)
(***************************************************************************)

\* 'dim_<i>' for a one-digit i, written out.
Placeholder(i) == <<"d", "i", "m", "_", DigitChars[i + 1]>>

\* The entries joined by commas.
RECURSIVE JoinByComma(_)
JoinByComma(entries) ==
    IF Len(entries) = 1 THEN entries[1]
    ELSE entries[1] \o <<",">> \o JoinByComma(Tail(entries))

\* The labels are the entries of the axes list, '.' at index i (from 0)
\* replaced by 'dim_<i>'.
LabelsFromList(axes) ==
    /\ Len(nx_dims.dims) = Len(axes)
    /\ \A i \in 1..Len(axes) :
          nx_dims.dims[i] = IF axes[i] = <<".">> THEN Placeholder(i - 1) ELSE axes[i]

\* C10: NXdata.dims gives (1) the entries of the group's axes attribute, or of
\* the default axes list when the group has none, with every '.' at index i
\* replaced by 'dim_<i>'; (2) otherwise the comma-separated entries of the
\* signal dataset's axes attribute; (3) otherwise 'dim_<i>' for every axis i of
\* the signal's shape.
C10_DimsResolutionOrder ==
    nx_dims.kind # "none" =>
        IF nx_axes.present
        THEN nx_dims.kind = "ok" /\ LabelsFromList(nx_axes.value)
        ELSE IF nx_axes_default.present
        THEN nx_dims.kind = "ok" /\ LabelsFromList(nx_axes_default.value)
        ELSE IF ~nx_signal.present THEN TRUE
        ELSE IF nx_signal.axes.present
        THEN /\ nx_dims.kind = "ok"
             /\ Len(nx_dims.dims) >= 1
             /\ \A i \in 1..Len(nx_dims.dims) :
                    \A k \in 1..Len(nx_dims.dims[i]) : nx_dims.dims[i][k] # ","
             /\ JoinByComma(nx_dims.dims) = nx_signal.axes.value
        ELSE /\ nx_dims.kind = "ok"
             /\ Len(nx_dims.dims) = Len(nx_signal.shape)
             /\ \A i \in 1..Len(nx_signal.shape) : nx_dims.dims[i] = Placeholder(i - 1)

\* C10 witness: the group's axes attribute ['x', '.'] has given the labels
\* 'x' and 'dim_1', although the signal carries an axes attribute of its own.
C10_Witness ==
    /\ nx_dims.kind = "ok"
    /\ nx_axes = Attr(<<<<"x">>, <<".">>>>)
    /\ nx_signal.present /\ nx_signal.axes.present
    /\ nx_dims.dims = <<<<"x">>, <<"d", "i", "m", "_", "1">>>>

\* The datasets the last read went through: those its skip list leaves.
ReadItems == SelectSeq(nx_fields, LAMBDA f : f.name \notin Range(nx_skip))

\* The positions of the signal dataset's axes that have the extent s.
SignalAxesOf(s) == {i \in 1..Len(nx_signal.shape) : nx_signal.shape[i] = s}

\* What the dims of the field f are to be: "ok" with the labels, "error" for
\* NexusStructureError, "any" for indices that point outside the signal's dims.
ClaimedFieldDims(f) ==
    IF f.indices.present
    THEN IF \A k \in 1..Len(f.indices.value) : f.indices.value[k] < Len(nx_read.dims)
         THEN [kind |-> "ok",
               dims |-> [k \in 1..Len(f.indices.value) |->
                           nx_read.dims[f.indices.value[k] + 1]]]
         ELSE [kind |-> "any", dims |-> <<>>]
    ELSE IF \A k \in 1..Len(f.shape) : Cardinality(SignalAxesOf(f.shape[k])) = 1
         THEN [kind |-> "ok",
               dims |-> [k \in 1..Len(f.shape) |->
                           nx_read.dims[CHOOSE i \in SignalAxesOf(f.shape[k]) : TRUE]]]
         ELSE [kind |-> "error", dims |-> <<>>]

\* C11 (as claimed): in a read that has loaded the signal, every coordinate
\* loaded has the labels its '<name>_indices' attribute picks from the
\* signal's dims or, without the attribute, the labels of the signal's axes
\* that alone have its extents; the read ends with NexusStructureError exactly
\* at the first dataset with an extent that none or several of the signal's
\* axes have.
C11_FieldDimsIndicesOrGuess ==
    nx_read.reached_items =>
        LET n == Len(nx_read.coords)
        IN  /\ \A k \in 1..n :
                  \/ ClaimedFieldDims(ReadItems[k]).kind = "any"
                  \/ /\ ClaimedFieldDims(ReadItems[k]).kind = "ok"
                     /\ nx_read.coords[k].dims = ClaimedFieldDims(ReadItems[k]).dims
            /\ (n < Len(ReadItems) /\ ClaimedFieldDims(ReadItems[n + 1]).kind # "any") =>
                  (nx_read.kind = "NexusStructureError"
                      <=> ClaimedFieldDims(ReadItems[n + 1]).kind = "error")

\* C12 (as claimed): whenever NXdata.dims has given labels for a group with a
\* signal dataset, there are as many labels as the signal's shape has extents,
\* whichever of the three branches has given them.
C12_DimsLenIsShapeLen ==
    (nx_dims.kind = "ok" /\ Signal.present) =>
        Len(nx_dims.dims) = Len(Signal.shape)

\* The names of the coordinates a read has loaded, in order.
CoordNames(r) == [k \in 1..Len(r.coords) |-> r.coords[k].name]

\* C13: the second read of a view on an unchanged group, with the same
\* selection, ends as the first did and gives the same signal name, the same
\* dims and the same coordinate names, although the first read has extended
\* the skip list of the view.
C13_ReadTwiceSame ==
    nx_prev.kind # "none" =>
        /\ nx_read.kind = nx_prev.kind
        /\ nx_read.signal_name = nx_prev.signal_name
        /\ nx_read.dims = nx_prev.dims
        /\ CoordNames(nx_read) = CoordNames(nx_prev)

\* C13 witness: two reads were made, both have loaded the signal 'data' and
\* the same two coordinates, and the skip list has grown with each of them.
C13_Witness ==
    /\ nx_reads = 2
    /\ nx_prev.kind = "ok" /\ nx_read.kind = "ok"
    /\ nx_read.signal_name = Attr(DataName)
    /\ Len(nx_read.coords) = 2
    /\ CoordNames(nx_prev) = CoordNames(nx_read)
    /\ Len(nx_skip) >= 4

\* C29: a read leaves the skip list of the view, which is the list the view
\* was constructed with (for a view made by NXdetector._nxdata, the
\* detector's list of event-data field names), as it was.
C29_SkipListUnchanged == [][NxGetitem => nx_skip' = nx_skip]_vars

(***************************************************************************)
(* Selections: the claims                                                  *)
(***************************************************************************)

\* A full-range selector of a dataset with the dims: slice(None), bare or as
\* the only index of a tuple, on one dimension, or slice(None) under the name
\* of a dim (as dict or as pair), for one dim or several.
IsFullRange(dims, select) ==
    \/ /\ select.kind \in {"bare", "tuple"}
       /\ Len(dims) = 1
       /\ Len(select.items) = 1
       /\ select.items[1].sel = SliceNone
    \/ /\ select.kind \in {"dict", "named"}
       /\ select.items # <<>>
       /\ \A k \in 1..Len(select.items) :
              /\ select.items[k].key \in Range(dims)
              /\ select.items[k].sel = SliceNone

\* The axes of a dataset with the dims, every extent being 2.
AxesOfTwo(dims) == [i \in 1..Len(dims) |-> [dim |-> dims[i], size |-> 2]]

\* C14: to_plain_index gives for a full-range selector the index it gives for
\* Ellipsis and for the empty tuple: slice(None) for one dimension, a tuple
\* of slice(None) otherwise; read through this index, the dataset keeps all
\* its axes and extents.
C14_FullRangeIsEllipsis ==
    (sel_index.out.kind # "none" /\ IsFullRange(sel_dims, sel_index.select)) =>
        /\ sel_index.out.kind = "ok"
        /\ sel_index.out = ToPlainIndex(sel_dims, SelectEllipsis)
        /\ sel_index.out = ToPlainIndex(sel_dims, SelectTuple(<<>>))
        /\ sel_index.out.single = (Len(sel_dims) = 1)
        /\ Len(sel_index.out.index) = Len(sel_dims)
        /\ \A i \in 1..Len(sel_dims) : sel_index.out.index[i].kind = "slice_none"
        /\ IndexedAxes(AxesOfTwo(sel_dims), sel_index.out.index) = AxesOfTwo(sel_dims)

\* C14 witness: {'y': slice(None)} on a dataset with the dims x, y has given
\* the tuple (slice(None), slice(None)).
C14_Witness ==
    /\ sel_dims = <<<<"x">>, <<"y">>>>
    /\ sel_index.select = SelectDict(<<Entry(<<"y">>, SliceNone)>>)
    /\ sel_index.out = [kind |-> "ok", single |-> FALSE,
                        index |-> <<SliceNone, SliceNone>>]

\* The selectors that cannot be resolved to the dims: a name that is no dim,
\* a bare int or slice or a positional tuple on several dims, several
\* positional indices on one dim.
IsUnresolvable(dims, select) ==
    \/ /\ select.kind \in {"dict", "named"}
       /\ \E k \in 1..Len(select.items) : select.items[k].key \notin Range(dims)
    \/ /\ select.kind = "bare"
       /\ Len(dims) > 1
    \/ /\ select.kind = "tuple"
       /\ select.items # <<>>
       /\ Len(dims) > 1
    \/ /\ select.kind = "tuple"
       /\ Len(select.items) > 1
       /\ Len(dims) = 1

\* C15: to_plain_index ends with ValueError and returns no index for every
\* selector that names a dimension outside dims, for a bare integer or slice
\* and for a positional tuple on a dataset of more than one dimension, and for
\* a positional tuple of more than one index on one dimension.
C15_UnresolvableRejected ==
    (sel_index.out.kind # "none" /\ IsUnresolvable(sel_dims, sel_index.select)) =>
        /\ sel_index.out.kind = "ValueError"
        /\ sel_index.out.index = <<>>

\* C15 witness: the bare integer 0 on a dataset with the dims x, y was
\* rejected.
C15_Witness ==
    /\ sel_dims = <<<<"x">>, <<"y">>>>
    /\ sel_index.select = SelectBare(SelInt(0))
    /\ sel_index.out.kind = "ValueError"

\* The entries of a selection for a class with the dims, positional indices
\* under the name of the only dim.
EntriesOf(dims, select) == ToCanonicalSelect(dims, select).items

\* The selection is one _to_canonical_select accepts for the dims.
IsCanonicalisable(dims, select) == ToCanonicalSelect(dims, select).ok

\* C16 (as claimed): the selection to_child_select returns holds exactly the
\* entries of select whose dimension is one of child_dims, each with its
\* selector, and the call raises nothing.
C16_ChildKeepsOnlyChildDims ==
    (sel_child.out.kind # "none" /\ IsCanonicalisable(sel_dims, sel_child.select)) =>
        /\ sel_child.out.kind = "ok"
        /\ EntriesOf(sel_dims, sel_child.out.select) =
               SelectSeq(EntriesOf(sel_dims, sel_child.select),
                         LAMBDA e : e.key \in Range(sel_child_dims))

\* C16 (amended): the selection to_child_select returns holds exactly the
\* entries of select whose dimension is one of child_dims or is no dimension
\* of the parent either, each with its selector; the entries on dimensions
\* that the parent has and the child lacks are dropped, and the call raises
\* nothing.
C16_ChildDropsParentOnlyDims ==
    (sel_child.out.kind # "none" /\ IsCanonicalisable(sel_dims, sel_child.select)) =>
        /\ sel_child.out.kind = "ok"
        /\ EntriesOf(sel_dims, sel_child.out.select) =
               SelectSeq(EntriesOf(sel_dims, sel_child.select),
                         LAMBDA e : \/ e.key \in Range(sel_child_dims)
                                    \/ e.key \notin Range(sel_dims))
        /\ \A k \in 1..Len(sel_child.out.select.items) :
               ~(/\ sel_child.out.select.items[k].key \in Range(sel_dims)
                 /\ sel_child.out.select.items[k].key \notin Range(sel_child_dims))

\* C16 witness: for a parent with the dims x, y and a child with the dim x,
\* the selection {'x': 0, 'y': slice(0, 1)} has given {'x': 0}.
C16_Witness ==
    /\ sel_dims = <<<<"x">>, <<"y">>>>
    /\ sel_child_dims = <<<<"x">>>>
    /\ sel_child.select = SelectDict(<<Entry(<<"x">>, SelInt(0)),
                                       Entry(<<"y">>, SelSlice(0, 1))>>)
    /\ sel_child.out = ChildOk(SelectDict(<<Entry(<<"x">>, SelInt(0))>>))

\* C28: the selection the caller passed to to_child_select has the entries
\* it had before the call.
C28_CallerSelectUnchanged == sel_select = sel_given

(***************************************************************************)
(* by_nx_class: the claims                                                 *)
(***************************************************************************)

\* The groups of the file at or below the queried group.
Subtree == {q \in DOMAIN cls_groups :
               /\ Len(q) >= Len(cls_query.root)
               /\ SubSeq(q, 1, Len(cls_query.root)) = cls_query.root}

\* The last component of a path; the root has the empty name.
LeafOf(q) == IF q = <<>> THEN "" ELSE q[Len(q)]

C18_HandleReleased ==
    /\ file_opened <= 1
    /\ file_pc \in {"exited", "raised"} => ~file_open

(***************************************************************************)
(* NXdetector events: the claims                                           *)
(***************************************************************************)

\* The detector has several NXevent_data groups, or one of them next to a
\* child 'data' that is not an NXevent_data group.
Ambiguous ==
    \/ Cardinality(ev_entries) > 1
    \/ Cardinality(ev_entries) = 1 /\ ev_data = "other"

\* C19: of an ambiguous detector every query (shape, dims, unit, events,
\* select_events, read) raises NexusStructureError, and no event group is
\* picked.
C19_AmbiguousRejected ==
    (Ambiguous /\ ev_query # "none") => ev_result = EvRaise("NexusStructureError")

C19_Witness ==
    /\ Cardinality(ev_entries) = 2
    /\ "data" \in ev_entries
    /\ ev_query = "read"
    /\ ev_result.kind = "NexusStructureError"

(***************************************************************************)
(* Logs: the claims                                                        *)
(***************************************************************************)

\* C20: every call of _add_log_to_data leaves the entries data had, adds
\* exactly one entry, under the name of the log or under that name prefixed
\* by names of the path up to the first name data did not have, and warns
\* if and only if the name was changed.
C20_LogAddedUnderUnusedName ==
    [][ AddLogToData =>
          /\ log_data \subseteq log_data'
          /\ Cardinality(log_data') = Cardinality(log_data) + 1
          /\ log_result'.kind = "stored"
          /\ log_result'.name \notin log_data
          /\ (log_warnings' = log_warnings + 1)
                <=> (log_result'.name # log_call'[Len(log_call')]) ]_vars

\* The failures the claim lists as BadSource, and the one it lists as
\* SkipSource.
ClaimedBad(group) ==
    \/ group.value = "absent" /\ ~group.contains_stream
    \/ group.value = "empty"
    \/ group.value # "absent" /\ group.time = "different"
    \/ group.value = "2d"
    \/ group.value # "absent" /\ group.time = "bad_unit"
ClaimedSkip(group) == group.value = "absent" /\ group.contains_stream

\* What the claim says of one round of load_logs.
RoundAsClaimed ==
    LET group == log_groups[log_pos]
    IN  /\ log_data \subseteq log_data'
        /\ ClaimedBad(group) =>
               log_data' = log_data /\ log_warnings' = log_warnings + 1
        /\ ClaimedSkip(group) =>
               log_data' = log_data /\ log_warnings' = log_warnings
        /\ ~ClaimedBad(group) /\ ~ClaimedSkip(group) =>
               Cardinality(log_data') = Cardinality(log_data) + 1

\* C21: load_logs processes every group of its list: a round goes on to the
\* next group, or ends load_logs after the last; a BadSource log adds no
\* entry and emits a warning, a SkipSource log adds none and emits none, the
\* entries already added stay, and any other log is loaded.
C21_EveryLogProcessed ==
    [][ LoadLogsRound =>
          /\ log_pos' = log_pos + 1
          /\ log_pc' = IF log_pos = Len(log_groups) THEN "done" ELSE "running"
          /\ RoundAsClaimed ]_vars

(***************************************************************************)
(* Integer datasets: the claims                                            *)
(***************************************************************************)

\* Two elements are the same integer when they are the same once widened to
\* a size that holds every element of every type.
SameInteger(dtype1, bytes1, dtype2, bytes2) ==
    Widen(dtype1, bytes1, ItemSize("int64") + 1)
        = Widen(dtype2, bytes2, ItemSize("int64") + 1)

\* C22: an element loaded from a dataset of a converted type (int8, int16,
\* uint8, uint16, uint32, uint64) is the integer that was stored.
C22_ConversionKeepsValue ==
    (int_loaded.how # "none" /\ EnsureSupportedIntType(int_dtype) # int_dtype) =>
        SameInteger(int_dtype, int_stored, int_loaded.dtype, int_loaded.bytes)

(***************************************************************************)
(* convert: the claims                                                     *)
(***************************************************************************)

\* C23: with the target energy_transfer the mode is direct_inelastic exactly
\* when incident_energy is the only inelastic coord, indirect_inelastic
\* exactly when final_energy is the only one, and RuntimeError is raised with
\* both or neither; with energy as origin or target and an inelastic coord
\* RuntimeError is raised; in every other case the mode is elastic.
C23_EnergyModeDeduced ==
    em_mode # "none" =>
        IF em_target = "energy_transfer"
        THEN /\ em_mode = "direct_inelastic" <=> em_coords = {"incident_energy"}
             /\ em_mode = "indirect_inelastic" <=> em_coords = {"final_energy"}
             /\ em_mode = "RuntimeError" <=> Cardinality(em_coords) # 1
        ELSE IF (em_origin = "energy" \/ em_target = "energy") /\ em_coords # {}
        THEN em_mode = "RuntimeError"
        ELSE em_mode = "elastic"

\* C23 witness: energy as origin with final_energy in the data was refused.
C23_Witness ==
    /\ em_origin = "energy" /\ em_target = "wavelength"
    /\ em_coords = {"final_energy"}
    /\ em_mode = "RuntimeError"

(***************************************************************************)
(* Data stream: the claims                                                 *)
(***************************************************************************)

\* The generator has ended after the worker was started: STOP_NOW was put,
\* the worker has ended or was terminated, and every queue is closed.
StCleanedUp ==
    /\ st_stop_put
    /\ st_worker = "dead" \/ st_terminated
    /\ st_closed = StQueues

\* C26: once the worker was started, every end of the generator (the loop
\* condition false, an exception or TimeoutError in the loop, the consumer
\* closing the generator) runs the cleanup, after which the worker is
\* eventually not alive; a worker that has taken STOP_NOW has stopped its
\* consumers and its buffer and left its loop.
C26_CleanupOnEveryExit ==
    /\ [](st_exit # "none" => st_pc \in {"finally", "join", "cleanup_queues", "ended"})
    /\ [](st_pc = "ended" => StCleanedUp)
    /\ [](st_worker = "left_loop" => st_consumers = "stopped" /\ st_buffer = "stopped")
    /\ (st_exit # "none") ~> (st_pc = "ended" /\ st_worker = "dead")

\* C26 witness: the consumer closed the generator, and the worker, still in
\* its loop after the join, was terminated and has ended.
C26_Witness ==
    /\ st_exit = "closed"
    /\ st_pc = "ended"
    /\ st_terminated
    /\ st_worker = "dead"
    /\ st_consumers = "started"

\* C27: whenever start_at is start_of_run, the start time is read from a
\* run-start message that was fetched before.
C27_RunStartFetchedBeforeUse ==
    (st_args.start_at = "start_of_run" /\ st_start_time # "none") =>
        st_run_start /\ st_start_time = "run_start"

====
